---- MODULE Spec2Model ----
(***************************************************************************)
(* Model of the dcmpipe element codec: the stop conditions of the parser   *)
(* (core/read/stop.rs) and the element writer (core/write/writer.rs).      *)
(*                                                                         *)
(* A u32 is kept as its two u16 halves, [hi, lo]: tags are                 *)
(* (group << 16) | element and the undefined-length sentinel 0xFFFF_FFFF   *)
(* does not fit a 32-bit signed integer.                                   *)
(***************************************************************************)
EXTENDS Integers, Sequences, FiniteSets, TLC

VARIABLES
    \* ---- parse with a stop condition (core/read/stop.rs) ----
    pStop,        \* ParseBehavior.stop: [kind, target]
    pCurrent,     \* the current TagPath handed to ParseStop::evaluate
    pResult,      \* what evaluate returned for pCurrent
    pEmitted,     \* the element at pCurrent was emitted
    pStopped,     \* the parse has stopped
    \* ---- Writer (core/write/writer.rs) ----
    wState,       \* Writer.state
    wPreamble,    \* Writer.file_preamble is Some
    wBytesWritten,\* Writer.bytes_written
    wOut,         \* bytes received by the sink (Writer.dataset)
    wLog,         \* ghost: which write produced which range of wOut
    wInput,       \* ghost: elements of the last write_elements call
    wResult,      \* result of the last write_elements call
    wStart,       \* ghost: Writer.state at the start of the last call
    wCalls,       \* ghost: number of write_elements calls so far
    wGiven,       \* ghost: number of elements handed to the writer so far
    \* ---- value encoding (core/write/valencode.rs) ----
    eElem,        \* the element a value is encoded for: [vr, ts]
    eValue,       \* the RawValue to encode: [kind, vals]
    eResult,      \* what Vec<u8>::try_from(ElemAndRawValue) returned
    \* ---- byte-level readers (core/read/util.rs) ----
    rSrc,         \* the `impl Read` a reader is called on, before the call
    rCall,        \* the reader called and its arguments
    rResult,      \* what it returned and where it left the source
    \* ---- DicomStream (src/read/mod.rs) ----
    dStream,      \* DicomStream.stream: the bytes of the file and how it ends
    dSt,          \* the stream's position and bytes_read, ts, tag_peek, file_meta
    dLast,        \* ghost: the last operation, the state it began in, what it did
    dOps          \* ghost: number of operations so far
\* Writer.ts and Writer.cs are read only by create_element and the getters;
\* write_elements frames every element with the element's own ts().

pvars == <<pStop, pCurrent, pResult, pEmitted, pStopped>>
wvars == <<wState, wPreamble, wBytesWritten, wOut, wLog, wInput, wResult, wStart, wCalls,
          wGiven>>
evars == <<eElem, eValue, eResult>>
rvars == <<rSrc, rCall, rResult>>
dvars == <<dStream, dSt, dLast, dOps>>
vars == <<pStop, pCurrent, pResult, pEmitted, pStopped,
          wState, wPreamble, wBytesWritten, wOut, wLog, wInput, wResult, wStart, wCalls,
          wGiven, eElem, eValue, eResult, rSrc, rCall, rResult,
          dStream, dSt, dLast, dOps>>

(***************************************************************************)
(* Bounds                                                                  *)
(***************************************************************************)
MaxDepth == 2      \* nodes in a TagPath
MaxItem == 2       \* item indices 1..MaxItem
MaxElems == 3      \* elements handed to one Writer, over all its calls
MaxCalls == 2      \* write_elements calls on one Writer
MaxVals == 2       \* values in one RawValue
MaxBytes == 4      \* bytes a source holds
MaxOps == 4        \* operations on one DicomStream

(***************************************************************************)
(* u32 values as two u16 halves                                            *)
(***************************************************************************)
U32(h, l) == [hi |-> h, lo |-> l]

U32Less(a, b) == a.hi < b.hi \/ (a.hi = b.hi /\ a.lo < b.lo)

U32Leq(a, b) == a = b \/ U32Less(a, b)

NatToU32(n) == [hi |-> (n \div 65536) % 65536, lo |-> n % 65536]

Min(a, b) == IF a < b THEN a ELSE b

(***************************************************************************)
(* TagNode / TagPath                                                       *)
(***************************************************************************)
None == [some |-> FALSE, idx |-> 0]

Some(i) == [some |-> TRUE, idx |-> i]

RequestAttributesSequence == U32(64, 629)

PixelData == U32(32736, 16)

StopTags == {RequestAttributesSequence, PixelData}

Items == {None} \cup {Some(i) : i \in 1..MaxItem}

TagNodes == [tag : StopTags, item : Items]

TagPaths == UNION {[1..n -> TagNodes] : n \in 1..MaxDepth}

\* Paths the parser can be at: an element below the top level lies in an item
\* of a sequence, so every node but the last carries an item index.
CurrentPaths == {p \in TagPaths : \A j \in 1..(Len(p) - 1) : p[j].item.some}

\* Option<usize> ordering of the item index: None before every Some.
ItemLess(a, b) == (~a.some /\ b.some) \/ (a.some /\ b.some /\ a.idx < b.idx)

\* A node precedes another: unsigned tag first, then item index.
NodeLess(a, b) == U32Less(a.tag, b.tag) \/ (a.tag = b.tag /\ ItemLess(a.item, b.item))

\* Document order of paths: lexicographic over nodes, a proper prefix first.
PathLess(a, b) ==
    \/ \E i \in 1..Min(Len(a), Len(b)) :
          /\ \A j \in 1..(i - 1) : a[j] = b[j]
          /\ NodeLess(a[i], b[i])
    \/ /\ Len(a) < Len(b)
       /\ \A j \in 1..Len(a) : a[j] = b[j]

\* a is b itself or lies inside b (b is a prefix of a, item index of the last
\* node of b left open when it has none).
PathInside(a, b) ==
    /\ Len(b) <= Len(a)
    /\ \A j \in 1..(Len(b) - 1) : a[j] = b[j]
    /\ a[Len(b)].tag = b[Len(b)].tag
    /\ (b[Len(b)].item.some => a[Len(b)].item = b[Len(b)].item)

(***************************************************************************)
(* ParseStop                                                               *)
(***************************************************************************)
ParseStops ==
    {[kind |-> "EndOfDataset", target |-> <<>>], [kind |-> "AfterBytePos", target |-> <<>>]}
    \cup [kind : {"BeforeTagValue", "AfterTagValue"}, target : TagPaths]

is_before_tag_value_StrictIndex(target, current) ==
    IF U32Less(current.tag, target.tag) THEN FALSE
    ELSE IF U32Less(target.tag, current.tag) THEN TRUE
    ELSE IF current.item.some
         THEN IF target.item.some THEN current.item.idx > target.item.idx ELSE TRUE
         ELSE TRUE

is_before_tag_value(target, current) ==
    IF U32Less(current.tag, target.tag) THEN FALSE
    ELSE IF U32Less(target.tag, current.tag) THEN TRUE
    ELSE IF current.item.some
         THEN IF target.item.some THEN current.item.idx >= target.item.idx ELSE TRUE
         ELSE TRUE

is_after_tag_value(target, current) ==
    IF U32Less(current.tag, target.tag) THEN FALSE
    ELSE IF U32Less(target.tag, current.tag) THEN TRUE
    ELSE IF current.item.some
         THEN IF target.item.some THEN current.item.idx > target.item.idx ELSE FALSE
         ELSE FALSE

\* target.nodes.iter().zip(current.nodes.iter()).any(..)
evaluate(stop, current) ==
    CASE stop.kind = "BeforeTagValue" ->
            \E i \in 1..Min(Len(stop.target), Len(current)) :
                is_before_tag_value(stop.target[i], current[i])
      [] stop.kind = "AfterTagValue" ->
            \E i \in 1..Min(Len(stop.target), Len(current)) :
                is_after_tag_value(stop.target[i], current[i])
      [] OTHER -> FALSE

InitParse ==
    /\ pStop \in ParseStops
    /\ pCurrent = <<>>
    /\ pResult = FALSE
    /\ pEmitted = FALSE
    /\ pStopped = FALSE

\* The turn of the parser loop on the element at path cur: a BeforeTagValue
\* stop is evaluated before the element is read, the other stops once the
\* element has been read. A behaviour follows the parse at one element, any
\* element of the dataset.
ParseElement(cur) ==
    /\ pCurrent = <<>>
    /\ pCurrent' = cur
    /\ pResult' = evaluate(pStop, cur)
    /\ pEmitted' = ~(pStop.kind = "BeforeTagValue" /\ evaluate(pStop, cur))
    /\ pStopped' = evaluate(pStop, cur)
    /\ UNCHANGED pStop

(***************************************************************************)
(* Transfer syntaxes, value representations, elements                      *)
(***************************************************************************)
ImplicitVRLittleEndian == [explicit_vr |-> FALSE, big_endian |-> FALSE]

ExplicitVRLittleEndian == [explicit_vr |-> TRUE, big_endian |-> FALSE]

ExplicitVRBigEndian == [explicit_vr |-> TRUE, big_endian |-> TRUE]

\* VR descriptors: ident (two ASCII bytes), has_explicit_2byte_pad, padding.
VR(c1, c2, pad, padding) ==
    [ident |-> <<c1, c2>>, has_explicit_2byte_pad |-> pad, padding |-> padding]

UL == VR(85, 76, FALSE, 0)

UI == VR(85, 73, FALSE, 0)

CS == VR(67, 83, FALSE, 32)

PN == VR(80, 78, FALSE, 32)

OW == VR(79, 87, TRUE, 0)

SQ == VR(83, 81, TRUE, 0)

UN == VR(85, 78, TRUE, 0)

\* ValueLength
Explicit(n) == [kind |-> "Explicit", len |-> NatToU32(n)]

UndefinedLength == [kind |-> "UndefinedLength", len |-> U32(65535, 65535)]

UNDEFINED_LENGTH == U32(65535, 65535)

FILE_META_INFORMATION_GROUP_LENGTH == U32(2, 0)

FILE_META_GROUP_END == U32(2, 65535)

FILE_PREAMBLE_LENGTH == 128

\* tags::ITEM, the start of a sequence item
ITEM == U32(65534, 57344)

DICOM_PREFIX == <<68, 73, 67, 77>>

DicomElement(tag, vr, ts, vl, data) ==
    [tag |-> tag, vr |-> vr, ts |-> ts, vl |-> vl, data |-> data]

\* The elements handed to the writer.
ElementPool ==
    { \* a FileMetaInformationGroupLength as a parsed file carries it
      DicomElement(U32(2, 0), UL, ExplicitVRLittleEndian, Explicit(4), <<9, 0, 0, 0>>),
      \* TransferSyntaxUID
      DicomElement(U32(2, 16), UI, ExplicitVRLittleEndian, Explicit(2), <<49, 0>>),
      \* MediaStorageSOPClassUID of an element created under an implicit-VR syntax
      DicomElement(U32(2, 2), UI, ImplicitVRLittleEndian, Explicit(2), <<50, 0>>),
      \* a file-meta element of undefined length under short-form framing
      DicomElement(U32(2, 3), UI, ExplicitVRLittleEndian, UndefinedLength, <<>>),
      \* SpecificCharacterSet, big endian
      DicomElement(U32(8, 5), CS, ExplicitVRBigEndian, Explicit(2), <<73, 32>>),
      \* a sequence of undefined length
      DicomElement(U32(64, 629), SQ, ExplicitVRLittleEndian, UndefinedLength, <<>>),
      \* PatientName of undefined length under short-form framing
      DicomElement(U32(16, 16), PN, ExplicitVRLittleEndian, UndefinedLength, <<>>),
      \* PixelData, implicit VR
      DicomElement(U32(32736, 16), OW, ImplicitVRLittleEndian, Explicit(2), <<1, 2>>),
      \* Modality with a one-byte value, as DicomElement::new accepts it
      DicomElement(U32(8, 96), CS, ExplicitVRLittleEndian, Explicit(1), <<77>>),
      \* the start of an item of undefined length in an explicit-VR dataset
      DicomElement(ITEM, UN, ExplicitVRLittleEndian, UndefinedLength, <<>>) }

(***************************************************************************)
(* Writer: byte-level framing                                              *)
(***************************************************************************)
u16_to_le_bytes(x) == <<x % 256, x \div 256>>

u16_to_be_bytes(x) == <<x \div 256, x % 256>>

u32_to_le_bytes(v) == u16_to_le_bytes(v.lo) \o u16_to_le_bytes(v.hi)

u32_to_be_bytes(v) == u16_to_be_bytes(v.hi) \o u16_to_be_bytes(v.lo)

write_tag(element) ==
    IF element.ts.big_endian
    THEN u16_to_be_bytes(element.tag.hi) \o u16_to_be_bytes(element.tag.lo)
    ELSE u16_to_le_bytes(element.tag.hi) \o u16_to_le_bytes(element.tag.lo)

write_vr(element) ==
    IF ~element.ts.explicit_vr THEN <<>>
    ELSE element.vr.ident
         \o (IF element.vr.has_explicit_2byte_pad THEN <<0, 0>> ELSE <<>>)

write_vl_PadFlagOnly(element) ==
    LET write_as_u32 == element.vr.has_explicit_2byte_pad
    IN  IF element.vl.kind = "UndefinedLength"
        THEN IF ~write_as_u32
             THEN [ok |-> FALSE, bytes |-> <<>>]
             ELSE [ok |-> TRUE,
                   bytes |-> IF element.ts.big_endian
                             THEN u32_to_be_bytes(UNDEFINED_LENGTH)
                             ELSE u32_to_le_bytes(UNDEFINED_LENGTH)]
        ELSE IF write_as_u32
             THEN [ok |-> TRUE,
                   bytes |-> IF element.ts.big_endian
                             THEN u32_to_be_bytes(element.vl.len)
                             ELSE u32_to_le_bytes(element.vl.len)]
             ELSE [ok |-> TRUE,
                   bytes |-> IF element.ts.big_endian
                             THEN u16_to_be_bytes(element.vl.len.lo)
                             ELSE u16_to_le_bytes(element.vl.len.lo)]

write_vl_TruncatesUndefined(element) ==
    LET write_as_u32 == ~element.ts.explicit_vr \/ element.vr.has_explicit_2byte_pad
        length == IF element.vl.kind = "UndefinedLength"
                  THEN UNDEFINED_LENGTH ELSE element.vl.len
    IN  IF write_as_u32
        THEN [ok |-> TRUE,
              bytes |-> IF element.ts.big_endian
                        THEN u32_to_be_bytes(length)
                        ELSE u32_to_le_bytes(length)]
        ELSE [ok |-> TRUE,
              bytes |-> IF element.ts.big_endian
                        THEN u16_to_be_bytes(length.lo)
                        ELSE u16_to_le_bytes(length.lo)]

\* [ok, bytes]: ok = FALSE is Err(WriteError::InvalidValueLength).
write_vl(element) ==
    LET write_as_u32 == ~element.ts.explicit_vr \/ element.vr.has_explicit_2byte_pad
    IN  IF element.vl.kind = "UndefinedLength"
        THEN IF ~write_as_u32
             THEN [ok |-> FALSE, bytes |-> <<>>]
             ELSE [ok |-> TRUE,
                   bytes |-> IF element.ts.big_endian
                             THEN u32_to_be_bytes(UNDEFINED_LENGTH)
                             ELSE u32_to_le_bytes(UNDEFINED_LENGTH)]
        ELSE IF write_as_u32
             THEN [ok |-> TRUE,
                   bytes |-> IF element.ts.big_endian
                             THEN u32_to_be_bytes(element.vl.len)
                             ELSE u32_to_le_bytes(element.vl.len)]
             ELSE [ok |-> TRUE,
                   bytes |-> IF element.ts.big_endian
                             THEN u16_to_be_bytes(element.vl.len.lo)
                             ELSE u16_to_le_bytes(element.vl.len.lo)]

write_data(element) == element.data

\* [ok, bytes]: bytes reach the dataset as they are written, so on an error
\* the tag and VR are already in bytes.
write_element(element) ==
    LET vl == write_vl(element)
    IN  IF vl.ok
        THEN [ok |-> TRUE,
              bytes |-> write_tag(element) \o write_vr(element) \o vl.bytes
                        \o write_data(element)]
        ELSE [ok |-> FALSE, bytes |-> write_tag(element) \o write_vr(element)]

\* Writer::new_fme with RawValue::UnsignedIntegers(vec![n]): a UL element in
\* ExplicitVRLittleEndian, its value the 4 little-endian bytes of n.
new_fme(tag, vr, n) ==
    DicomElement(tag, vr, ExplicitVRLittleEndian, Explicit(4), u32_to_le_bytes(NatToU32(n)))

(***************************************************************************)
(* Writer: write_fm_elements, write_elements                               *)
(***************************************************************************)
\* One record of wLog: the write of `kind` for element idx of the input of
\* call `call` (idx 0: not an input element) put len bytes at offset from.
LogEntry(kind, idx, elem, call, from, len, ok) ==
    [kind |-> kind, idx |-> idx, elem |-> elem, call |-> call,
     from |-> from, len |-> len, ok |-> ok]

\* elem of the log entries of the preamble and of the prefix.
NoElement == DicomElement(U32(0, 0), UL, ExplicitVRLittleEndian, Explicit(0), <<>>)

\* The loop of write_fm_elements over fm_elements (indices into input),
\* writing into the in-memory fm_dataset: [ok, bytes, lens].
RECURSIVE fm_dataset(_, _, _)
fm_dataset(input, fm_elements, k) ==
    IF k > Len(fm_elements) THEN [ok |-> TRUE, bytes |-> <<>>, lens |-> <<>>]
    ELSE LET w == write_element(input[fm_elements[k]])
         IN  IF ~w.ok THEN [ok |-> FALSE, bytes |-> <<>>, lens |-> <<>>]
             ELSE LET rest == fm_dataset(input, fm_elements, k + 1)
                  IN  IF ~rest.ok THEN rest
                      ELSE [ok |-> TRUE,
                            bytes |-> w.bytes \o rest.bytes,
                            lens |-> <<Len(w.bytes)>> \o rest.lens]

Sum(lens, k) == LET S[i \in 0..k] == IF i = 0 THEN 0 ELSE S[i - 1] + lens[i] IN S[k]

group_length_value_WithOwnElement(fm_bytes) == Len(fm_bytes) + 12

\* fm_bytes.len() as u32
group_length_value(fm_bytes) == Len(fm_bytes)

\* [ok, bytes, log]: the bytes write_fm_elements puts into the Writer's dataset
\* at offset base, none when an element fails in the in-memory buffer.
write_fm_elements(input, fm_elements, base, call) ==
    LET fm == fm_dataset(input, fm_elements, 1)
    IN  IF ~fm.ok THEN [ok |-> FALSE, bytes |-> <<>>, log |-> <<>>]
        ELSE LET fm_group_length ==
                     new_fme(FILE_META_INFORMATION_GROUP_LENGTH, UL,
                             group_length_value(fm.bytes))
                 gl == write_element(fm_group_length)
             IN  [ok |-> TRUE,
                  bytes |-> gl.bytes \o fm.bytes,
                  log |-> <<LogEntry("group_length", 0, fm_group_length, call, base, Len(gl.bytes), TRUE)>>
                          \o [k \in 1..Len(fm_elements) |->
                                LogEntry("file_meta", fm_elements[k], input[fm_elements[k]], call,
                                         base + Len(gl.bytes) + Sum(fm.lens, k - 1),
                                         fm.lens[k], TRUE)]]

\* The header step of write_elements: the accumulator the loop starts from.
write_header(state, preamble, out, call) ==
    IF state = "Preamble"
    THEN LET pre == IF preamble THEN [i \in 1..FILE_PREAMBLE_LENGTH |-> 0] ELSE <<>>
         IN  [state |-> "FileMeta", fm |-> <<>>, ok |-> TRUE,
              out |-> out \o pre \o DICOM_PREFIX,
              log |-> (IF preamble
                       THEN <<LogEntry("preamble", 0, NoElement, call, Len(out), Len(pre), TRUE)>>
                       ELSE <<>>)
                      \o <<LogEntry("prefix", 0, NoElement, call, Len(out) + Len(pre),
                                    Len(DICOM_PREFIX), TRUE)>>]
    ELSE [state |-> state, fm |-> <<>>, ok |-> TRUE, out |-> out, log |-> <<>>]

\* bytes_written += Writer::write_element(&mut self.dataset, element)?
write_one(input, i, acc, call) ==
    LET w == write_element(input[i])
    IN  [acc EXCEPT !.ok = w.ok,
                    !.out = @ \o w.bytes,
                    !.log = Append(@, LogEntry("element", i, input[i], call, Len(acc.out),
                                               Len(w.bytes), w.ok))]

\* Flush of the collected file-meta elements into the Writer's dataset.
flush_fm(input, acc, call) ==
    LET f == write_fm_elements(input, acc.fm, Len(acc.out), call)
    IN  [acc EXCEPT !.ok = f.ok,
                    !.out = @ \o f.bytes,
                    !.log = @ \o f.log,
                    !.fm = IF f.ok THEN <<>> ELSE @]

\* A FileMetaInformationGroupLength of the input is ignored in place of the
\* one write_fm_elements makes.
fm_collect_All(element) == TRUE

fm_collect(element) == element.tag # FILE_META_INFORMATION_GROUP_LENGTH

\* The first element above the file-meta group, once the collected file-meta
\* elements are flushed (flushed.ok) or the flush failed.
first_element(input, i, flushed, call) ==
    IF ~flushed.ok THEN flushed
    ELSE write_one(input, i, [flushed EXCEPT !.state = "Element"], call)

\* One turn of `for element in elements { .. }` of write_elements, on element
\* i; after an error (ok = FALSE) the function has returned and nothing more
\* happens.
write_step(input, i, acc, call) ==
    IF ~acc.ok THEN acc
    ELSE IF acc.state = "FileMeta"
         THEN IF U32Leq(input[i].tag, FILE_META_GROUP_END)
              THEN IF fm_collect(input[i])
                   THEN [acc EXCEPT !.fm = Append(@, i)]
                   ELSE acc
              ELSE first_element(input, i, flush_fm(input, acc, call), call)
         ELSE write_one(input, i, acc, call)

\* for element in elements { .. } of write_elements, from the accumulator
\* the header step left.
write_loop(input, acc, call) ==
    LET after[i \in 0..Len(input)] ==
            IF i = 0 THEN acc ELSE write_step(input, i, after[i - 1], call)
    IN  after[Len(input)]

\* if self.state == WriterState::FileMeta && !fm_elements.is_empty() { .. }
final_flush(input, looped, call) ==
    IF looped.ok /\ looped.state = "FileMeta" /\ looped.fm # <<>>
    THEN flush_fm(input, looped, call)
    ELSE looped

write_elements_NoFinalFlush(state, preamble, out, input, call) ==
    write_loop(input, write_header(state, preamble, out, call), call)

\* Writer::write_elements: [state, ok, out, log, fm].
write_elements(state, preamble, out, input, call) ==
    final_flush(input, write_loop(input, write_header(state, preamble, out, call), call), call)

InitWriter ==
    /\ wState \in {"Preamble", "Element"}
    /\ wPreamble \in BOOLEAN
    /\ (wState = "Element" => ~wPreamble)
    /\ wBytesWritten = 0
    /\ wOut = <<>>
    /\ wLog = <<>>
    /\ wInput = <<>>
    /\ wResult = [ok |-> TRUE, n |-> 0]
    /\ wStart = wState
    /\ wCalls = 0
    /\ wGiven = 0

\* One call of Writer::write_elements on the elements of input.
WriteElements(input) ==
    /\ wCalls < MaxCalls
    /\ wGiven + Len(input) <= MaxElems
    /\ \E r \in {write_elements(wState, wPreamble, wOut, input, wCalls + 1)} :
           /\ wState' = r.state
           /\ wOut' = r.out
           /\ wLog' = wLog \o r.log
           /\ wResult' = IF r.ok
                         THEN [ok |-> TRUE, n |-> Len(r.out) - Len(wOut)]
                         ELSE [ok |-> FALSE, n |-> 0]
    /\ wInput' = input
    /\ wStart' = wState
    /\ wCalls' = wCalls + 1
    /\ wGiven' = wGiven + Len(input)
    /\ UNCHANGED <<wPreamble, wBytesWritten>>

(***************************************************************************)
(* Value encoding (core/write/valencode.rs)                                *)
(***************************************************************************)
IS == VR(73, 83, FALSE, 32)

DS == VR(68, 83, FALSE, 32)

US == VR(85, 83, FALSE, 0)

AT == VR(65, 84, FALSE, 0)

OB == VR(79, 66, TRUE, 0)

OF == VR(79, 70, TRUE, 0)

\* VR.is_character_string
is_character_string(vr) == vr.ident \in {CS.ident, PN.ident, IS.ident, DS.ident, UI.ident}

CS_SEPARATOR == 92

SeqsUpTo(S, n) == UNION {[1..k -> S] : k \in 0..n}

\* Strings are sequences of code points: '1', '.', and U+00E9, which the
\* default character set cannot encode.
Chars == {49, 46, 233}

StringPool == {<<>>, <<49>>, <<49, 46>>, <<233>>}

SignedPool == {-10, 0, 7, 256}

UnsignedPool == {0, 7, 256}

\* f32 / f64 values: is_finite(), fract() == 0.0, the texts of format!("{:.1}")
\* and to_string(), and the IEEE-754 big-endian bytes.
Float(finite, whole, fixed1, display, be32, be64) ==
    [finite |-> finite, whole |-> whole, fixed1 |-> fixed1, display |-> display,
     be32 |-> be32, be64 |-> be64]

FloatPool ==
    { Float(TRUE, TRUE, <<50, 46, 48>>, <<50>>, <<64, 0, 0, 0>>, <<64, 0, 0, 0, 0, 0, 0, 0>>),
      Float(TRUE, FALSE, <<49, 46, 50>>, <<49, 46, 50, 53>>,
            <<63, 160, 0, 0>>, <<63, 244, 0, 0, 0, 0, 0, 0>>),
      Float(FALSE, FALSE, <<105, 110, 102>>, <<105, 110, 102>>,
            <<127, 128, 0, 0>>, <<127, 240, 0, 0, 0, 0, 0, 0>>) }

RawValue(kind, vals) == [kind |-> kind, vals |-> vals]

RawValues ==
    {RawValue("Attribute", v) : v \in SeqsUpTo({U32(8, 5), U32(16, 16), U32(32736, 16)}, MaxVals)}
    \cup {RawValue("Uid", v) : v \in SeqsUpTo(Chars, MaxVals)}
    \cup {RawValue("Strings", v) : v \in SeqsUpTo(StringPool, MaxVals)}
    \cup {RawValue(k, v) : k \in {"Shorts", "Integers", "Longs"},
                           v \in SeqsUpTo(SignedPool, MaxVals)}
    \cup {RawValue(k, v) : k \in {"UnsignedShorts", "UnsignedIntegers", "UnsignedLongs",
                                  "Words", "DoubleWords", "QuadWords"},
                           v \in SeqsUpTo(UnsignedPool, MaxVals)}
    \cup {RawValue(k, v) : k \in {"Floats", "Doubles"}, v \in SeqsUpTo(FloatPool, MaxVals)}
    \cup {RawValue("Bytes", v) : v \in SeqsUpTo({0, 255}, MaxVals + 1)}

EncodeElems ==
    {[vr |-> vr, ts |-> ts] :
        vr \in {UI, CS, IS, DS, US, AT, OB, OW},
        ts \in {ImplicitVRLittleEndian, ExplicitVRLittleEndian, ExplicitVRBigEndian}}

RECURSIVE Flatten(_)
Flatten(ss) == IF ss = <<>> THEN <<>> ELSE Head(ss) \o Flatten(Tail(ss))

Reverse(s) == [i \in 1..Len(s) |-> s[Len(s) + 1 - i]]

\* Vec::pop
Pop(s) == IF s = <<>> THEN <<>> ELSE SubSeq(s, 1, Len(s) - 1)

\* The w bytes of the two's complement of n, least significant first
\* (-2^23 <= n < 2^23).
int_to_le_bytes(n, w) ==
    [i \in 1..w |-> IF i <= 3 THEN ((n % 16777216) \div (256 ^ (i - 1))) % 256
                    ELSE IF n < 0 THEN 255 ELSE 0]

int_to_be_bytes(n, w) == Reverse(int_to_le_bytes(n, w))

RECURSIVE digits(_)
digits(n) == IF n < 10 THEN <<48 + n>> ELSE Append(digits(n \div 10), 48 + (n % 10))

\* i16::to_string .. u64::to_string
to_string(n) == IF n < 0 THEN <<45>> \o digits(0 - n) ELSE digits(n)

\* CharacterSet::encode in the default character set
cs_encode(str) ==
    IF \E i \in 1..Len(str) : str[i] > 127
    THEN [ok |-> FALSE, bytes |-> <<>>]
    ELSE [ok |-> TRUE, bytes |-> str]

\* texts.flat_map(|v| v.chain(once(CS_SEPARATOR_BYTE))).collect(), then pop()
join_separated(texts) ==
    Pop(Flatten([i \in 1..Len(texts) |-> Append(texts[i], CS_SEPARATOR)]))

ElemAndAttributes_WholeWord(elem, attrs) ==
    Flatten([i \in 1..Len(attrs) |->
        IF elem.ts.big_endian
        THEN u32_to_be_bytes(attrs[i])
        ELSE u32_to_le_bytes(attrs[i])])

ElemAndAttributes(elem, attrs) ==
    Flatten([i \in 1..Len(attrs) |->
        IF elem.ts.big_endian
        THEN u16_to_be_bytes(attrs[i].hi) \o u16_to_be_bytes(attrs[i].lo)
        ELSE u16_to_le_bytes(attrs[i].hi) \o u16_to_le_bytes(attrs[i].lo)])

ElemAndUid(elem, uid) == cs_encode(uid)

ElemAndStrings(elem, strings) ==
    IF \E i \in 1..Len(strings) : ~cs_encode(strings[i]).ok
    THEN [ok |-> FALSE, bytes |-> <<>>]
    ELSE [ok |-> TRUE,
          bytes |-> join_separated([i \in 1..Len(strings) |-> cs_encode(strings[i]).bytes])]

\* The integer encoders: decimal text under a character-string VR, else the
\* w-byte binary form in the transfer syntax's byte order.
encode_integers(elem, ints, w) ==
    IF is_character_string(elem.vr)
    THEN join_separated([i \in 1..Len(ints) |-> to_string(ints[i])])
    ELSE Flatten([i \in 1..Len(ints) |->
            IF elem.ts.big_endian THEN int_to_be_bytes(ints[i], w)
            ELSE int_to_le_bytes(ints[i], w)])

ElemAndShorts(elem, shorts) == encode_integers(elem, shorts, 2)

ElemAndUnsignedShorts(elem, ushorts) == encode_integers(elem, ushorts, 2)

ElemAndIntegers(elem, ints) == encode_integers(elem, ints, 4)

ElemAndUnsignedIntegers(elem, uints) == encode_integers(elem, uints, 4)

ElemAndLongs(elem, longs) == encode_integers(elem, longs, 8)

ElemAndUnsignedLongs(elem, ulongs) == encode_integers(elem, ulongs, 8)

\* .filter(is_finite)
finite_only(floats) == SelectSeq(floats, LAMBDA f : f.finite)

ElemAndFloats(elem, floats) ==
    LET kept == finite_only(floats)
    IN  IF is_character_string(elem.vr)
        THEN join_separated([i \in 1..Len(kept) |->
                IF kept[i].whole THEN kept[i].fixed1 ELSE kept[i].display])
        ELSE Flatten([i \in 1..Len(kept) |->
                IF elem.ts.big_endian THEN kept[i].be32 ELSE Reverse(kept[i].be32)])

ElemAndDoubles(elem, doubles) ==
    LET kept == finite_only(doubles)
    IN  IF is_character_string(elem.vr)
        THEN join_separated([i \in 1..Len(kept) |->
                IF kept[i].whole THEN kept[i].fixed1 ELSE kept[i].display])
        ELSE Flatten([i \in 1..Len(kept) |->
                IF elem.ts.big_endian THEN kept[i].be64 ELSE Reverse(kept[i].be64)])

binary_words(elem, words, w) ==
    Flatten([i \in 1..Len(words) |->
        IF elem.ts.big_endian THEN int_to_be_bytes(words[i], w)
        ELSE int_to_le_bytes(words[i], w)])

ElemAndWords(elem, words) == binary_words(elem, words, 2)

ElemAndDoubleWords(elem, dwords) == binary_words(elem, dwords, 4)

ElemAndQuadWords(elem, qwords) == binary_words(elem, qwords, 8)

\* The match of try_from: the encoding of the value before any padding.
\* [ok, bytes]; ok = FALSE is Err(ParseError::CharsetError).
encode_variant(elem, value) ==
    LET Ok(b) == [ok |-> TRUE, bytes |-> b]
    IN  CASE value.kind = "Attribute" -> Ok(ElemAndAttributes(elem, value.vals))
          [] value.kind = "Uid" -> ElemAndUid(elem, value.vals)
          [] value.kind = "Strings" -> ElemAndStrings(elem, value.vals)
          [] value.kind = "Shorts" -> Ok(ElemAndShorts(elem, value.vals))
          [] value.kind = "UnsignedShorts" -> Ok(ElemAndUnsignedShorts(elem, value.vals))
          [] value.kind = "Integers" -> Ok(ElemAndIntegers(elem, value.vals))
          [] value.kind = "UnsignedIntegers" ->
                Ok(ElemAndUnsignedIntegers(elem, value.vals))
          [] value.kind = "Longs" -> Ok(ElemAndLongs(elem, value.vals))
          [] value.kind = "UnsignedLongs" -> Ok(ElemAndUnsignedLongs(elem, value.vals))
          [] value.kind = "Floats" -> Ok(ElemAndFloats(elem, value.vals))
          [] value.kind = "Doubles" -> Ok(ElemAndDoubles(elem, value.vals))
          [] value.kind = "Bytes" -> Ok(value.vals)
          [] value.kind = "Words" -> Ok(ElemAndWords(elem, value.vals))
          [] value.kind = "DoubleWords" -> Ok(ElemAndDoubleWords(elem, value.vals))
          [] value.kind = "QuadWords" -> Ok(ElemAndQuadWords(elem, value.vals))

try_from_PadsWithNul(elem, value) ==
    LET r == encode_variant(elem, value)
    IN  IF ~r.ok THEN r
        ELSE IF Len(r.bytes) % 2 # 0
             THEN [ok |-> TRUE, bytes |-> Append(r.bytes, 0)]
             ELSE r

\* Vec<u8>::try_from(ElemAndRawValue(elem, value))
try_from(elem, value) ==
    LET r == encode_variant(elem, value)
    IN  IF ~r.ok THEN r
        ELSE IF Len(r.bytes) % 2 # 0
             THEN [ok |-> TRUE, bytes |-> Append(r.bytes, elem.vr.padding)]
             ELSE r

NotEncoded == [done |-> FALSE, ok |-> FALSE, bytes |-> <<>>]

InitEncode ==
    /\ eElem \in EncodeElems
    /\ eValue \in RawValues
    /\ eResult = NotEncoded

IdleEncode ==
    /\ eElem = [vr |-> UI, ts |-> ExplicitVRLittleEndian]
    /\ eValue = RawValue("Bytes", <<>>)
    /\ eResult = NotEncoded

\* One call of Vec<u8>::try_from(ElemAndRawValue(eElem, eValue)).
EncodeValue ==
    /\ ~eResult.done
    /\ \E r \in {try_from(eElem, eValue)} :
           eResult' = [done |-> TRUE, ok |-> r.ok, bytes |-> r.bytes]
    /\ UNCHANGED <<eElem, eValue>>

(***************************************************************************)
(* Byte-level readers (core/read/util.rs)                                  *)
(***************************************************************************)
KnownVRs == {UL, UI, CS, PN, OW, SQ, IS, DS, US, AT, OB, OF, UN}

vr_code(vr) == vr.ident[1] * 256 + vr.ident[2]

\* VR::from_code: [some, vr]
from_code(code) ==
    IF \E vr \in KnownVRs : vr_code(vr) = code
    THEN [some |-> TRUE, vr |-> CHOOSE vr \in KnownVRs : vr_code(vr) = code]
    ELSE [some |-> FALSE, vr |-> UN]

\* vl::from_value_length
from_value_length(value_length) ==
    IF value_length = UNDEFINED_LENGTH THEN UndefinedLength
    ELSE [kind |-> "Explicit", len |-> value_length]

u16_from_le_bytes(b) == b[1] + 256 * b[2]

u16_from_be_bytes(b) == 256 * b[1] + b[2]

u32_from_le_bytes(b) == U32(u16_from_le_bytes(SubSeq(b, 3, 4)), u16_from_le_bytes(SubSeq(b, 1, 2)))

u32_from_be_bytes(b) == U32(u16_from_be_bytes(SubSeq(b, 1, 2)), u16_from_be_bytes(SubSeq(b, 3, 4)))

\* An `impl Read`: the bytes it holds, how many were drawn, the most bytes one
\* read() returns, the position at which read() fails with an error other
\* than Interrupted (-1: never) and the position at which one read() is
\* interrupted (-1: never).
is_non_standard_seq_AnyTag(tag, vr, vl) ==
    /\ vr \in {UN, OB, OF, OW}
    /\ vl = UndefinedLength

is_non_standard_seq(tag, vr, vl) ==
    /\ tag # ITEM
    /\ vr \in {UN, OB, OF, OW}
    /\ vl = UndefinedLength

Source(data, chunk, fault, interrupt) ==
    [data |-> data, pos |-> 0, chunk |-> chunk, fault |-> fault, interrupt |-> interrupt,
     again |-> 0]

\* Read::read(buf) with buf.len() = want
read(src, want) ==
    IF src.interrupt = src.pos
    THEN [kind |-> "Interrupted", bytes |-> <<>>,
          src |-> IF src.again > 0 THEN [src EXCEPT !.again = @ - 1]
                  ELSE [src EXCEPT !.interrupt = -1]]
    ELSE IF src.fault = src.pos
    THEN [kind |-> "Err", bytes |-> <<>>, src |-> src]
    ELSE [kind |-> "Ok",
          bytes |-> SubSeq(src.data, src.pos + 1,
                           src.pos + Min(Min(src.chunk, want), Len(src.data) - src.pos)),
          src |-> [src EXCEPT !.pos = src.pos
                                      + Min(Min(src.chunk, want), Len(src.data) - src.pos)]]

ReadResult(kind, err, buf, src) == [kind |-> kind, err |-> err, buf |-> buf, src |-> src]

\* The loop of read_exact_expect_eof, entered with want bytes still to fill
\* and got the bytes filled so far.
RECURSIVE fill_expect_eof(_, _, _)
fill_expect_eof(src, want, got) ==
    IF want = 0 THEN ReadResult("Ok", "", got, src)
    ELSE \* match dataset.read(buf)
         CASE read(src, want).kind = "Interrupted" ->
                 fill_expect_eof(read(src, want).src, want, got)
           [] read(src, want).kind = "Err" -> ReadResult("IOError", "Other", got, src)
           [] read(src, want).bytes = <<>> ->
                 IF got = <<>> THEN ReadResult("ExpectedEOF", "", got, src)
                 ELSE ReadResult("IOError", "UnexpectedEof", got, src)
           [] OTHER ->
                 fill_expect_eof(read(src, want).src,
                                 want - Len(read(src, want).bytes),
                                 got \o read(src, want).bytes)

read_exact_expect_eof_InterruptedIsError(src, n) ==
    IF n > 0 /\ read(src, n).kind = "Interrupted"
    THEN ReadResult("IOError", "Interrupted", <<>>, src)
    ELSE fill_expect_eof(src, n, <<>>)

read_exact_expect_eof(src, n) == fill_expect_eof(src, n, <<>>)

\* std::io::Read::read_exact: as above, but an early end of the source is
\* always ErrorKind::UnexpectedEof.
read_exact(src, n) ==
    IF fill_expect_eof(src, n, <<>>).kind = "ExpectedEOF"
    THEN ReadResult("IOError", "UnexpectedEof", <<>>, src)
    ELSE fill_expect_eof(src, n, <<>>)

\* What a reader returns: kind is "Ok", "ExpectedEOF", "IOError" or
\* "UnknownExplicitVR"; pos is the position of the source afterwards.
Returned(kind, err, pos) ==
    [kind |-> kind, err |-> err, pos |-> pos, tag |-> U32(0, 0), vr |-> UN,
     vl |-> UndefinedLength, code |-> 0, seq |-> FALSE]

tag_second_half(first, second, big_endian) ==
    IF second.kind # "Ok" THEN Returned(second.kind, second.err, second.src.pos)
    ELSE [Returned("Ok", "", second.src.pos) EXCEPT
            !.tag = IF big_endian
                    THEN U32(u16_from_be_bytes(first.buf), u16_from_be_bytes(second.buf))
                    ELSE U32(u16_from_le_bytes(first.buf), u16_from_le_bytes(second.buf))]

\* The second half is read with read_exact; tolerant_second is FALSE in the
\* code and TRUE only in the variant that reads both halves alike.
tag_first_half(first, tolerant_second, big_endian) ==
    IF first.kind # "Ok" THEN Returned(first.kind, first.err, first.src.pos)
    ELSE IF tolerant_second
    THEN tag_second_half(first, read_exact_expect_eof(first.src, 2), big_endian)
    ELSE tag_second_half(first, read_exact(first.src, 2), big_endian)

read_tag_from_dataset_TolerantTwice(dataset, big_endian) ==
    tag_first_half(read_exact_expect_eof(dataset, 2), TRUE, big_endian)

read_tag_from_dataset(dataset, big_endian) ==
    tag_first_half(read_exact_expect_eof(dataset, 2), FALSE, big_endian)

vr_reserved(found, pad_read) ==
    IF pad_read.kind # "Ok" THEN Returned(pad_read.kind, pad_read.err, pad_read.src.pos)
    ELSE [Returned("Ok", "", pad_read.src.pos) EXCEPT !.vr = found]

vr_lookup(code_read, found, skip_pad) ==
    IF code_read.kind # "Ok" THEN Returned(code_read.kind, code_read.err, code_read.src.pos)
    ELSE IF ~found.some
    THEN [Returned("UnknownExplicitVR", "", code_read.src.pos) EXCEPT
            !.code = code_read.buf[1] * 256 + code_read.buf[2]]
    ELSE IF found.vr.has_explicit_2byte_pad /\ skip_pad
    THEN vr_reserved(found.vr, read_exact(code_read.src, 2))
    ELSE [Returned("Ok", "", code_read.src.pos) EXCEPT !.vr = found.vr]

vr_of_code(code_read, skip_pad) ==
    vr_lookup(code_read,
              IF code_read.kind = "Ok"
              THEN from_code(code_read.buf[1] * 256 + code_read.buf[2])
              ELSE [some |-> FALSE, vr |-> UN],
              skip_pad)

read_vr_from_dataset_NoReservedBytes(dataset) == vr_of_code(read_exact(dataset, 2), FALSE)

read_vr_from_dataset(dataset) == vr_of_code(read_exact(dataset, 2), TRUE)

vl_decode(len_read, ts, wide) ==
    IF len_read.kind # "Ok" THEN Returned(len_read.kind, len_read.err, len_read.src.pos)
    ELSE [Returned("Ok", "", len_read.src.pos) EXCEPT
            !.vl = from_value_length(
                     IF wide
                     THEN IF ts.big_endian THEN u32_from_be_bytes(len_read.buf)
                          ELSE u32_from_le_bytes(len_read.buf)
                     ELSE IF ts.big_endian THEN U32(0, u16_from_be_bytes(len_read.buf))
                          ELSE U32(0, u16_from_le_bytes(len_read.buf)))]

\* A 16-bit 0xFFFF widened with its sign.
vl_decode_SignExtended(len_read, ts, wide) ==
    IF len_read.kind # "Ok" THEN Returned(len_read.kind, len_read.err, len_read.src.pos)
    ELSE [Returned("Ok", "", len_read.src.pos) EXCEPT
            !.vl = from_value_length(
                     IF wide
                     THEN IF ts.big_endian THEN u32_from_be_bytes(len_read.buf)
                          ELSE u32_from_le_bytes(len_read.buf)
                     ELSE IF u16_from_le_bytes(len_read.buf) = 65535 THEN U32(65535, 65535)
                          ELSE IF ts.big_endian THEN U32(0, u16_from_be_bytes(len_read.buf))
                          ELSE U32(0, u16_from_le_bytes(len_read.buf)))]

read_value_length_from_dataset_SignExtended(dataset, ts, vr) ==
    IF ~ts.explicit_vr \/ vr.has_explicit_2byte_pad
    THEN vl_decode_SignExtended(read_exact(dataset, 4), ts, TRUE)
    ELSE vl_decode_SignExtended(read_exact(dataset, 2), ts, FALSE)

read_value_length_from_dataset(dataset, ts, vr) ==
    IF ~ts.explicit_vr \/ vr.has_explicit_2byte_pad
    THEN vl_decode(read_exact(dataset, 4), ts, TRUE)
    ELSE vl_decode(read_exact(dataset, 2), ts, FALSE)

ByteSet == {0, 76, 78, 85, 255}

\* How a source hands its bytes out: whole, a byte at a time, interrupted
\* once, failing at its first read, failing after one or three bytes.
Quirks ==
    { [chunk |-> 4, fault |-> -1, interrupt |-> -1, again |-> 0],
      [chunk |-> 1, fault |-> -1, interrupt |-> -1, again |-> 0],
      [chunk |-> 1, fault |-> -1, interrupt |-> 1, again |-> 0],
      [chunk |-> 4, fault |-> -1, interrupt |-> 0, again |-> 1],
      [chunk |-> 4, fault |-> 0, interrupt |-> -1, again |-> 0],
      [chunk |-> 1, fault |-> 1, interrupt |-> 0, again |-> 0],
      [chunk |-> 1, fault |-> 3, interrupt |-> -1, again |-> 0] }

Sources ==
    {[Source(d, q.chunk, q.fault, q.interrupt) EXCEPT !.again = q.again] :
        d \in SeqsUpTo(ByteSet, MaxBytes), q \in Quirks}

\* Elements whose headers the writer frames and the readers read back.
HeaderElems ==
    { DicomElement(tag, vr, ts, vl, <<>>) :
        tag \in {U32(8, 5), ITEM},
        vr \in {UI, OW},
        ts \in {ImplicitVRLittleEndian, ExplicitVRLittleEndian, ExplicitVRBigEndian},
        vl \in {Explicit(2), Explicit(65538), UndefinedLength} }

\* The header of an element as the writer frames it: write_tag, write_vr,
\* write_vl.
written_header(element) == write_tag(element) \o write_vr(element) \o write_vl(element).bytes

\* Sources that hold a written header, handed out whole or a byte at a time.
WrittenHeaders ==
    {Source(written_header(e), chunk, -1, -1) :
        e \in {h \in HeaderElems : write_vl(h).ok}, chunk \in {1, 4}}

NoCall == [fn |-> "none", ts |-> ExplicitVRLittleEndian, vr |-> UN, elem |-> NoElement]

NotRead == Returned("none", "", 0)

InitRead ==
    /\ rSrc \in Sources \cup WrittenHeaders
    /\ rCall = NoCall
    /\ rResult = NotRead

IdleRead ==
    /\ rSrc = Source(<<>>, 4, -1, -1)
    /\ rCall = NoCall
    /\ rResult = NotRead

\* read_tag_from_dataset(&mut rSrc, ts.big_endian)
ReadTag(ts) ==
    /\ rCall = NoCall
    /\ rCall' = [fn |-> "read_tag", ts |-> ts, vr |-> UN, elem |-> NoElement]
    /\ rResult' = read_tag_from_dataset(rSrc, ts.big_endian)
    /\ UNCHANGED rSrc

\* read_vr_from_dataset(&mut rSrc)
ReadVr ==
    /\ rCall = NoCall
    /\ rCall' = [fn |-> "read_vr", ts |-> ExplicitVRLittleEndian, vr |-> UN, elem |-> NoElement]
    /\ rResult' = read_vr_from_dataset(rSrc)
    /\ UNCHANGED rSrc

\* read_value_length_from_dataset(&mut rSrc, ts, vr)
ReadValueLength(ts, vr) ==
    /\ rCall = NoCall
    /\ rCall' = [fn |-> "read_value_length", ts |-> ts, vr |-> vr, elem |-> NoElement]
    /\ rResult' = read_value_length_from_dataset(rSrc, ts, vr)
    /\ UNCHANGED rSrc

\* The header of one element read as the three readers are called in turn,
\* each on the source where the one before left it; under implicit VR the
\* VR is the one the caller resolved for the tag.
header_length_read(t, v, l) ==
    IF l.kind # "Ok" THEN l ELSE [l EXCEPT !.tag = t.tag, !.vr = v.vr]

header_vr_read(dataset, ts, t, v) ==
    IF v.kind # "Ok" THEN v
    ELSE header_length_read(t, v,
             read_value_length_from_dataset([dataset EXCEPT !.pos = v.pos], ts, v.vr))

header_tag_read(dataset, ts, vr, t) ==
    IF t.kind # "Ok" THEN t
    ELSE header_vr_read(dataset, ts, t,
             IF ts.explicit_vr THEN read_vr_from_dataset([dataset EXCEPT !.pos = t.pos])
             ELSE [Returned("Ok", "", t.pos) EXCEPT !.vr = vr])

read_header(dataset, ts, vr) ==
    header_tag_read(dataset, ts, vr, read_tag_from_dataset(dataset, ts.big_endian))

\* The header the writer framed for `element` is read back under the
\* element's transfer syntax.
ReadHeader(element) ==
    /\ rCall = NoCall
    /\ write_vl(element).ok
    /\ rSrc.data = written_header(element)
    /\ rCall' = [fn |-> "read_header", ts |-> element.ts, vr |-> element.vr, elem |-> element]
    /\ rResult' = read_header(rSrc, element.ts, element.vr)
    /\ UNCHANGED rSrc

\* is_non_standard_seq(tag, vr, vl)
IsNonStandardSeq(tag, vr, vl) ==
    /\ rCall = NoCall
    /\ rCall' = [fn |-> "is_non_standard_seq", ts |-> ExplicitVRLittleEndian, vr |-> vr,
                 elem |-> DicomElement(tag, vr, ExplicitVRLittleEndian, vl, <<>>)]
    /\ rResult' = [Returned("Ok", "", rSrc.pos) EXCEPT
                     !.seq = is_non_standard_seq(tag, vr, vl)]
    /\ UNCHANGED rSrc

(***************************************************************************)
(* DicomStream (src/read/mod.rs)                                           *)
(***************************************************************************)
\* VR.explicit_vr_header_bytes: tag, VR and length field of an element under
\* explicit VR, 12 bytes for the VRs with the reserved field and 8 otherwise.
explicit_vr_header_bytes(vr) == IF vr.has_explicit_2byte_pad THEN 12 ELSE 8

\* vr::VR::code_to_vr: [some, vr]
code_to_vr(code) == from_code(code)

TransferSyntaxUID == U32(2, 16)

\* "1.2.840.10008.1.2"
UID_ImplicitVRLittleEndian ==
    <<49, 46, 50, 46, 56, 52, 48, 46, 49, 48, 48, 48, 56, 46, 49, 46, 50>>

UID_ExplicitVRLittleEndian == UID_ImplicitVRLittleEndian \o <<46, 49>>

UID_ExplicitVRBigEndian == UID_ImplicitVRLittleEndian \o <<46, 50>>

\* TS_BY_ID.get(uid): [some, ts]
TS_BY_ID(uid) ==
    CASE uid = UID_ImplicitVRLittleEndian -> [some |-> TRUE, ts |-> ImplicitVRLittleEndian]
      [] uid = UID_ExplicitVRLittleEndian -> [some |-> TRUE, ts |-> ExplicitVRLittleEndian]
      [] uid = UID_ExplicitVRBigEndian -> [some |-> TRUE, ts |-> ExplicitVRBigEndian]
      [] OTHER -> [some |-> FALSE, ts |-> ImplicitVRLittleEndian]

\* TAG_BY_VALUE.get(&tag).and_then(|t| t.implicit_vr).unwrap_or(&vr::UN)
implicit_vr(tag) ==
    CASE tag = U32(8, 5) -> CS
      [] tag = U32(8, 96) -> CS
      [] tag = U32(16, 16) -> PN
      [] tag = U32(32736, 16) -> OW
      [] OTHER -> UN

\* The fields of a DicomStream next to its stream: the stream's position,
\* bytes_read, ts, tag_peek and file_meta (file_preamble and dicom_prefix
\* are buffers no operation reads back).
StreamState(pos, bytes_read, ts, tag_peek, file_meta) ==
    [pos |-> pos, bytes_read |-> bytes_read, ts |-> ts, tag_peek |-> tag_peek,
     file_meta |-> file_meta]

NoPeek == [some |-> FALSE, tag |-> U32(0, 0)]

\* DicomStream::new
new == StreamState(0, 0, ExplicitVRLittleEndian, NoPeek, {})

\* The result of an operation: Ok(v) or Err, and the DicomStream afterwards.
Res(ok, st, v) == [ok |-> ok, st |-> st, v |-> v]

\* stream.read_exact on a buffer of n bytes (read_u8, read_u16, read_u32
\* alike). A stream that ends early returns UnexpectedEof and has let go of
\* the bytes it had (stream.drain) or of none, as its type does it.
take(stream, st, n) ==
    IF Len(stream.data) - st.pos >= n
    THEN Res(TRUE, [st EXCEPT !.pos = @ + n], SubSeq(stream.data, st.pos + 1, st.pos + n))
    ELSE Res(FALSE, [st EXCEPT !.pos = IF stream.drain THEN Len(stream.data) ELSE @], <<>>)

preamble_taken(t) ==
    IF t.ok THEN Res(TRUE, [t.st EXCEPT !.bytes_read = @ + FILE_PREAMBLE_LENGTH], <<>>)
    ELSE Res(FALSE, t.st, <<>>)

read_file_preamble(stream, st) == preamble_taken(take(stream, st, FILE_PREAMBLE_LENGTH))

prefix_taken(t, positions) ==
    IF ~t.ok THEN Res(FALSE, t.st, <<>>)
    ELSE IF \E n \in positions : t.v[n] # DICOM_PREFIX[n]
    THEN Res(FALSE, [t.st EXCEPT !.bytes_read = @ + Len(DICOM_PREFIX)], t.v)
    ELSE Res(TRUE, [t.st EXCEPT !.bytes_read = @ + Len(DICOM_PREFIX)], t.v)

read_dicom_prefix_FirstByteOnly(stream, st) ==
    prefix_taken(take(stream, st, Len(DICOM_PREFIX)), {1})

read_dicom_prefix(stream, st) ==
    prefix_taken(take(stream, st, Len(DICOM_PREFIX)), 1..Len(DICOM_PREFIX))

u16_read(b, big) == IF big THEN u16_from_be_bytes(b) ELSE u16_from_le_bytes(b)

tag_second_taken(first, second, big) ==
    IF ~second.ok THEN Res(FALSE, second.st, U32(0, 0))
    ELSE Res(TRUE,
             [second.st EXCEPT
                !.tag_peek = [some |-> TRUE,
                              tag |-> U32(u16_read(first.v, big), u16_read(second.v, big))],
                !.bytes_read = @ + 4],
             U32(u16_read(first.v, big), u16_read(second.v, big)))

tag_first_taken(stream, first, big) ==
    IF ~first.ok THEN Res(FALSE, first.st, U32(0, 0))
    ELSE tag_second_taken(first, take(stream, first.st, 2), big)

\* read_tag::<Endian>
read_tag(stream, st, big) ==
    IF st.tag_peek.some THEN Res(TRUE, st, st.tag_peek.tag)
    ELSE tag_first_taken(stream, take(stream, st, 2), big)

vr_found(st, found) ==
    IF found.some THEN Res(TRUE, st, found.vr) ELSE Res(FALSE, st, UN)

vr_second_taken(first_char, second_char) ==
    IF ~second_char.ok THEN Res(FALSE, second_char.st, UN)
    ELSE vr_found([second_char.st EXCEPT !.bytes_read = @ + 2],
                  code_to_vr(first_char.v[1] * 256 + second_char.v[1]))

vr_first_taken(stream, first_char) ==
    IF ~first_char.ok THEN Res(FALSE, first_char.st, UN)
    ELSE vr_second_taken(first_char, take(stream, first_char.st, 1))

read_vr(stream, st) == vr_first_taken(stream, take(stream, st, 1))

\* A u32 of the stream as a number. No stream of the model is as long as
\* 2^31 bytes: a length of 2^31 or more stands as 2^31 - 1, which
\* read_value_field cannot take from any of them either.
u32_number(hi, lo) == IF hi >= 32768 THEN 2147483647 ELSE 65536 * hi + lo

u32_read(b, big) ==
    IF big THEN u32_number(u16_from_be_bytes(SubSeq(b, 1, 2)), u16_from_be_bytes(SubSeq(b, 3, 4)))
    ELSE u32_number(u16_from_le_bytes(SubSeq(b, 3, 4)), u16_from_le_bytes(SubSeq(b, 1, 2)))

length_taken(t, big, header_bytes) ==
    IF ~t.ok THEN Res(FALSE, t.st, 0)
    ELSE Res(TRUE, [t.st EXCEPT !.bytes_read = @ + header_bytes],
             IF header_bytes = 8 THEN u16_read(t.v, big) ELSE u32_read(t.v, big))

reserved_taken(stream, t, big) ==
    IF ~t.ok THEN Res(FALSE, t.st, 0)
    ELSE length_taken(take(stream, t.st, 4), big, 12)

\* read_value_length::<Endian>
read_value_length(stream, st, big, vr) ==
    CASE explicit_vr_header_bytes(vr) = 8 -> length_taken(take(stream, st, 2), big, 8)
      [] explicit_vr_header_bytes(vr) = 12 -> reserved_taken(stream, take(stream, st, 2), big)
      [] OTHER -> Res(FALSE, st, 0)

field_taken_Assigns(t, value_length) ==
    IF ~t.ok THEN Res(FALSE, t.st, <<>>)
    ELSE Res(TRUE, [t.st EXCEPT !.bytes_read = value_length], t.v)

field_taken(t, value_length) ==
    IF ~t.ok THEN Res(FALSE, t.st, <<>>)
    ELSE Res(TRUE, [t.st EXCEPT !.bytes_read = @ + value_length], t.v)

read_value_field(stream, st, value_length) ==
    field_taken(take(stream, st, value_length), value_length)

StreamElement(tag, vr, vl, bytes) == [tag |-> tag, vr |-> vr, vl |-> vl, bytes |-> bytes]

NoStreamElement == StreamElement(U32(0, 0), UN, 0, <<>>)

element_field_read(tag, vr, vl, f) ==
    IF ~f.ok THEN Res(FALSE, f.st, NoStreamElement)
    ELSE Res(TRUE, f.st, StreamElement(tag, vr, vl, f.v))

element_length_read(stream, tag, vr, l) ==
    IF ~l.ok THEN Res(FALSE, l.st, NoStreamElement)
    ELSE element_field_read(tag, vr, l.v, read_value_field(stream, l.st, l.v))

element_vr_read(stream, tag, v) ==
    IF ~v.ok THEN Res(FALSE, v.st, NoStreamElement)
    ELSE element_length_read(stream, tag, v.v,
                             read_value_length(stream, v.st, v.st.ts.big_endian, v.v))

element_tag_read(stream, t, cleared) ==
    IF ~t.ok THEN Res(FALSE, t.st, NoStreamElement)
    ELSE element_vr_read(stream, t.v,
                         IF cleared.ts.explicit_vr THEN read_vr(stream, cleared)
                         ELSE Res(TRUE, cleared, implicit_vr(t.v)))

element_tag_KeepsPeek(stream, t) == element_tag_read(stream, t, t.st)

element_tag(stream, t) == element_tag_read(stream, t, [t.st EXCEPT !.tag_peek = NoPeek])

\* read_dicom_element / _read_dicom_element::<Endian>
read_dicom_element(stream, st) == element_tag(stream, read_tag(stream, st, st.ts.big_endian))

\* What read_file_meta returns, with what it did: the step it ended in, the
\* elements it read in its loop (each with the transfer syntax and the stream
\* positions it was read at), the group length it decoded and the stream
\* position after the group-length element.
MetaResult(ok, st, step, reads, fme_bytes, fme_start) ==
    [ok |-> ok, st |-> st, step |-> step, reads |-> reads, fme_bytes |-> fme_bytes,
     fme_start |-> fme_start]

\* element.bytes without the bytes equal to vr::UI.padding
ts_uid_bytes(bytes) == SelectSeq(bytes, LAMBDA b : b # UI.padding)

\* String::from_utf8 on the bytes of the model: ASCII, or a lone byte above it
from_utf8_ok(bytes) == \A i \in 1..Len(bytes) : bytes[i] < 128

\* self.file_meta.insert(element.tag, element)
file_meta_insert_SwitchesAtOnce(st, element) ==
    [st EXCEPT
       !.file_meta = {e \in @ : e.tag # element.tag} \cup {element},
       !.ts = IF element.tag = TransferSyntaxUID
                 /\ TS_BY_ID(ts_uid_bytes(element.bytes)).some
              THEN TS_BY_ID(ts_uid_bytes(element.bytes)).ts ELSE @]

file_meta_insert(st, element) ==
    [st EXCEPT !.file_meta = {e \in @ : e.tag # element.tag} \cup {element}]

\* The transfer_syntax local after an element of the loop.
next_transfer_syntax(transfer_syntax, element) ==
    IF element.tag = TransferSyntaxUID /\ TS_BY_ID(ts_uid_bytes(element.bytes)).some
    THEN TS_BY_ID(ts_uid_bytes(element.bytes)).ts
    ELSE transfer_syntax

MetaRead(st, e) ==
    [ts |-> st.ts, from |-> st.pos, to |-> e.st.pos, element |-> e.v]

RECURSIVE file_meta_loop(_, _, _, _, _, _, _)
file_meta_element(stream, st, e, before, fme_bytes, fme_start, transfer_syntax, reads) ==
    IF ~e.ok THEN MetaResult(FALSE, e.st, "loop", reads, fme_bytes, fme_start)
    ELSE IF e.v.tag = TransferSyntaxUID /\ ~from_utf8_ok(ts_uid_bytes(e.v.bytes))
    THEN MetaResult(FALSE, e.st, "loop", Append(reads, MetaRead(st, e)), fme_bytes, fme_start)
    ELSE file_meta_loop(stream, file_meta_insert(e.st, e.v), before, fme_bytes, fme_start,
                        next_transfer_syntax(transfer_syntax, e.v),
                        Append(reads, MetaRead(st, e)))

\* while self.bytes_read - bytes_read_before_fme < fme_bytes { .. }; self.ts = ..
file_meta_loop(stream, st, before, fme_bytes, fme_start, transfer_syntax, reads) ==
    IF st.bytes_read - before < fme_bytes
    THEN file_meta_element(stream, st, read_dicom_element(stream, st), before, fme_bytes,
                           fme_start, transfer_syntax, reads)
    ELSE MetaResult(TRUE, [st EXCEPT !.ts = transfer_syntax], "done", reads, fme_bytes,
                    fme_start)

file_meta_group_length(stream, before, g) ==
    IF ~g.ok THEN MetaResult(FALSE, g.st, "group_length", <<>>, 0, g.st.pos)
    ELSE IF g.v.tag # FILE_META_INFORMATION_GROUP_LENGTH \/ Len(g.v.bytes) < 4
    THEN MetaResult(FALSE, g.st, "group_length", <<>>, 0, g.st.pos)
    ELSE file_meta_loop(stream, g.st, before, u32_read(SubSeq(g.v.bytes, 1, 4), FALSE),
                        g.st.pos, ImplicitVRLittleEndian, <<>>)

file_meta_prefix(stream, x) ==
    IF ~x.ok THEN MetaResult(FALSE, x.st, "prefix", <<>>, 0, x.st.pos)
    ELSE file_meta_group_length(stream, x.st.bytes_read, read_dicom_element(stream, x.st))

file_meta_preamble(stream, p) ==
    IF ~p.ok THEN MetaResult(FALSE, p.st, "preamble", <<>>, 0, p.st.pos)
    ELSE file_meta_prefix(stream, read_dicom_prefix(stream, p.st))

read_file_meta(stream, st) == file_meta_preamble(stream, read_file_preamble(stream, st))

\* The bytes of an element framed in ExplicitVRLittleEndian.
Encoded(tag, vr, data) ==
    write_element(DicomElement(tag, vr, ExplicitVRLittleEndian, Explicit(Len(data)), data)).bytes

GroupLengthElement(v) ==
    Encoded(FILE_META_INFORMATION_GROUP_LENGTH, UL, u32_to_le_bytes(NatToU32(v)))

TS_Implicit == Encoded(TransferSyntaxUID, UI, Append(UID_ImplicitVRLittleEndian, 0))

TS_BigEndian == Encoded(TransferSyntaxUID, UI, Append(UID_ExplicitVRBigEndian, 0))

TS_Unknown == Encoded(TransferSyntaxUID, UI, <<49, 46, 50, 0>>)

MediaStorageSOPClassUID == Encoded(U32(2, 2), UI, <<49, 0>>)

FileMetaInformationVersion == Encoded(U32(2, 1), OB, <<0, 1>>)

SpecificCharacterSet == Encoded(U32(8, 5), CS, <<65, 32>>)

\* File-meta groups without their group length, element by element.
FileMetaBodies ==
    { <<>>,
      <<TS_Implicit>>,
      <<MediaStorageSOPClassUID>>,
      <<TS_BigEndian, MediaStorageSOPClassUID>>,
      <<MediaStorageSOPClassUID, TS_Implicit>>,
      <<TS_Unknown, FileMetaInformationVersion>>,
      <<FileMetaInformationVersion, MediaStorageSOPClassUID, TS_BigEndian>> }

Preamble == [i \in 1..FILE_PREAMBLE_LENGTH |-> 0]

\* Datasets without a file header: elements of zero length, of 2 bytes, and
\* one whose VR has the 12-byte header.
Datasets ==
    { Encoded(U32(8, 5), CS, <<>>) \o SpecificCharacterSet,
      SpecificCharacterSet \o Encoded(U32(16, 16), PN, <<>>)
          \o Encoded(U32(32736, 16), OW, <<1, 2>>),
      Encoded(U32(32736, 16), OW, <<>>) \o SpecificCharacterSet }

\* Files: preamble, prefix (DICM or DICX), group length (the length of the
\* file-meta elements that follow, or 60), file-meta elements and one
\* dataset element; and files that end early or lack the group length.
Files ==
    UNION { { Preamble \o prefix \o GroupLengthElement(v) \o Flatten(body)
                \o SpecificCharacterSet :
                  prefix \in {DICOM_PREFIX, <<68, 73, 67, 88>>},
                  v \in {Len(Flatten(body)), 60} } : body \in FileMetaBodies }
    \cup { <<>>, SubSeq(Preamble, 1, 3), Preamble \o <<68, 73>>,
           Preamble \o DICOM_PREFIX \o SpecificCharacterSet,
           Preamble \o DICOM_PREFIX \o SubSeq(GroupLengthElement(26), 1, 10) }
    \cup Datasets

Streams == {[data |-> f, drain |-> d] : f \in Files, d \in BOOLEAN}

Last(op, ok, start, step, reads, fme_bytes, fme_start, v) ==
    [op |-> op, ok |-> ok, start |-> start, step |-> step, reads |-> reads,
     fme_bytes |-> fme_bytes, fme_start |-> fme_start, v |-> v]

InitStream ==
    /\ dStream \in Streams
    /\ dSt = new
    /\ dLast = Last("new", TRUE, new, "", <<>>, 0, 0, <<>>)
    /\ dOps = 0

IdleStream ==
    /\ dStream = [data |-> <<>>, drain |-> FALSE]
    /\ dSt = new
    /\ dLast = Last("new", TRUE, new, "", <<>>, 0, 0, <<>>)
    /\ dOps = 0

\* The DicomStream after an operation that returned r.
Returns(op, r) ==
    /\ dOps < MaxOps
    /\ dSt' = r.st
    /\ dLast' = Last(op, r.ok, dSt, "", <<>>, 0, 0, r.v)
    /\ dOps' = dOps + 1
    /\ UNCHANGED dStream

ReadFilePreamble == \E r \in {read_file_preamble(dStream, dSt)} : Returns("read_file_preamble", r)

ReadDicomPrefix == \E r \in {read_dicom_prefix(dStream, dSt)} : Returns("read_dicom_prefix", r)

StreamReadTag(big) == \E r \in {read_tag(dStream, dSt, big)} : Returns("read_tag", r)

StreamReadVr == \E r \in {read_vr(dStream, dSt)} : Returns("read_vr", r)

StreamReadValueLength(big, vr) ==
    \E r \in {read_value_length(dStream, dSt, big, vr)} : Returns("read_value_length", r)

ReadValueField(value_length) ==
    \E r \in {read_value_field(dStream, dSt, value_length)} : Returns("read_value_field", r)

ReadDicomElement ==
    \E r \in {read_dicom_element(dStream, dSt)} : Returns("read_dicom_element", r)

ReadFileMeta ==
    /\ dOps < MaxOps
    /\ \E r \in {read_file_meta(dStream, dSt)} :
           /\ dSt' = r.st
           /\ dLast' = Last("read_file_meta", r.ok, dSt, r.step, r.reads, r.fme_bytes,
                            r.fme_start, <<>>)
    /\ dOps' = dOps + 1
    /\ UNCHANGED dStream

(***************************************************************************)
(* Specifications                                                          *)
(***************************************************************************)
IdleParse ==
    /\ pStop = [kind |-> "EndOfDataset", target |-> <<>>]
    /\ pCurrent = <<>> /\ pResult = FALSE /\ pEmitted = FALSE /\ pStopped = FALSE

IdleWriter ==
    /\ wState = "Preamble" /\ wPreamble = FALSE /\ wBytesWritten = 0
    /\ wOut = <<>> /\ wLog = <<>> /\ wInput = <<>>
    /\ wResult = [ok |-> TRUE, n |-> 0] /\ wStart = "Preamble" /\ wCalls = 0
    /\ wGiven = 0

Init == InitParse /\ InitWriter /\ InitEncode /\ InitRead /\ InitStream

\* The parse with a stop condition.
InitStop == InitParse /\ IdleWriter /\ IdleEncode /\ IdleRead /\ IdleStream

NextStop == \E cur \in CurrentPaths : ParseElement(cur) /\ UNCHANGED <<wvars, evars, rvars, dvars>>

SpecStop == InitStop /\ [][NextStop]_vars

\* The writer.
InitWrite == InitWriter /\ IdleParse /\ IdleEncode /\ IdleRead /\ IdleStream

NextWrite ==
    \E n \in 0..(MaxElems - wGiven) :
        \E input \in [1..n -> ElementPool] : WriteElements(input) /\ UNCHANGED <<pvars, evars, rvars, dvars>>

SpecWrite == InitWrite /\ [][NextWrite]_vars

\* The value encoder.
InitEnc == InitEncode /\ IdleParse /\ IdleWriter /\ IdleRead /\ IdleStream

NextEncode == EncodeValue /\ UNCHANGED <<pvars, wvars, rvars, dvars>>

SpecEncode == InitEnc /\ [][NextEncode]_vars

\* The byte-level readers.
InitReaders == InitRead /\ IdleParse /\ IdleWriter /\ IdleEncode /\ IdleStream

NextRead ==
    /\ \/ \E ts \in {ExplicitVRLittleEndian, ExplicitVRBigEndian} : ReadTag(ts)
       \/ ReadVr
       \/ \E ts \in {ImplicitVRLittleEndian, ExplicitVRLittleEndian, ExplicitVRBigEndian},
             vr \in {UL, UN} : ReadValueLength(ts, vr)
       \/ \E element \in HeaderElems : ReadHeader(element)
       \/ \E tag \in {ITEM, U32(8, 5)}, vr \in {UN, OB, OF, OW, SQ, UI},
             vl \in {UndefinedLength, Explicit(0)} : IsNonStandardSeq(tag, vr, vl)
    /\ UNCHANGED <<pvars, wvars, evars, dvars>>

SpecRead == InitReaders /\ [][NextRead]_vars

\* The DicomStream.
InitDicomStream == InitStream /\ IdleParse /\ IdleWriter /\ IdleEncode /\ IdleRead

NextStream ==
    /\ \/ ReadFilePreamble
       \/ ReadDicomPrefix
       \/ \E big \in BOOLEAN : StreamReadTag(big)
       \/ StreamReadVr
       \/ \E big \in BOOLEAN, vr \in {UI, OB} : StreamReadValueLength(big, vr)
       \/ \E value_length \in {0, 2} : ReadValueField(value_length)
       \/ ReadDicomElement
       \/ ReadFileMeta
    /\ UNCHANGED <<pvars, wvars, evars, rvars>>

SpecStream == InitDicomStream /\ [][NextStream]_vars

Next == NextStop \/ NextWrite \/ NextEncode \/ NextRead \/ NextStream

Spec == Init /\ [][Next]_vars

(***************************************************************************)
(* Vocabulary of the properties                                            *)
(***************************************************************************)
\* The bytes of wOut a log entry stands for.
Seg(l) == SubSeq(wOut, l.from + 1, l.from + l.len)

LogOfCall(c) == {k \in 1..Len(wLog) : wLog[k].call = c}

\* Element i of the last call reached the loop while the writer was in the
\* FileMeta state: the call began in Preamble or FileMeta and no element
\* with a tag above FILE_META_GROUP_END came before it.
InFileMetaPhase(i) ==
    /\ wStart \in {"Preamble", "FileMeta"}
    /\ \A j \in 1..(i - 1) : U32Leq(wInput[j].tag, FILE_META_GROUP_END)

\* Element i of the last call is an input group length the writer ignores.
Dropped(i) ==
    /\ wInput[i].tag = FILE_META_INFORMATION_GROUP_LENGTH
    /\ InFileMetaPhase(i)

\* Element i of the last call has bytes in the sink.
Written(i) == \E k \in LogOfCall(wCalls) : wLog[k].idx = i

\* Short-form framing: explicit VR and a VR without the 2-byte pad.
ShortForm(e) == e.ts.explicit_vr /\ ~e.vr.has_explicit_2byte_pad

ShortUndefined(e) == e.vl.kind = "UndefinedLength" /\ ShortForm(e)

Le16(x) == <<x % 256, x \div 256>>

Be16(x) == <<x \div 256, x % 256>>

LeValue(b) == b[1] + 256 * b[2] + 65536 * b[3] + 16777216 * b[4]

\* Number of file_meta entries that directly follow entry k of the log.
RECURSIVE FmRun(_)
FmRun(k) ==
    IF k < Len(wLog) /\ wLog[k + 1].kind = "file_meta" THEN 1 + FmRun(k + 1) ELSE 0

RECURSIVE LenSum(_, _)
LenSum(k, n) == IF n = 0 THEN 0 ELSE wLog[k + n].len + LenSum(k, n - 1)

(***************************************************************************)
(* C1..C3: stop conditions (SpecStop)                                      *)
(***************************************************************************)
\* C1: with stop = BeforeTagValue(T), evaluate returns true for every current
\* path that is equal to or after T in document order, so every element
\* emitted has a path strictly before T and the element at T is not emitted.
C1_BeforeStopsAtOrAfterTarget ==
    (pStop.kind = "BeforeTagValue" /\ pCurrent # <<>>) =>
        /\ (~PathLess(pCurrent, pStop.target) => pResult /\ pStopped)
        /\ pEmitted => (PathLess(pCurrent, pStop.target) /\ pCurrent # pStop.target)

C1_Witness ==
    /\ pStop.kind = "BeforeTagValue"
    /\ Len(pStop.target) = 2
    /\ pCurrent = pStop.target
    /\ pResult /\ pStopped
    /\ ~pEmitted

\* C2: with stop = BeforeTagValue(T), T a multi-level target, evaluate
\* returns false for every current path below the top level that precedes T
\* in document order: an element of an earlier item of T's sequence, or one
\* of T's own item whose deeper tag has not yet reached T's.
C2_BeforeReadsAllPreceding ==
    (pStop.kind = "BeforeTagValue"
        /\ Len(pStop.target) > 1 /\ Len(pCurrent) > 1
        /\ PathLess(pCurrent, pStop.target)
        /\ \/ /\ pCurrent[1].tag = pStop.target[1].tag
              /\ ItemLess(pCurrent[1].item, pStop.target[1].item)
              /\ pCurrent[1].item.some
           \/ /\ pCurrent[1] = pStop.target[1]
              /\ U32Less(pCurrent[2].tag, pStop.target[2].tag)) => ~pResult

\* C3: with stop = AfterTagValue(T), evaluate returns false for every current
\* path that is at or before T in document order or inside T.
C3_AfterNeverStopsAtOrBefore ==
    (pStop.kind = "AfterTagValue" /\ pCurrent # <<>>
        /\ (PathLess(pCurrent, pStop.target) \/ PathInside(pCurrent, pStop.target)))
    => ~pResult

C5_NoInputGroupLengthWritten ==
    \A k \in 1..Len(wLog) :
        wLog[k].kind \in {"element", "file_meta"} =>
            wLog[k].elem.tag # FILE_META_INFORMATION_GROUP_LENGTH

\* C5 amended: a FileMetaInformationGroupLength of the input is not written
\* when it reaches the writer in the FileMeta state; one that comes after the
\* first element above the file-meta group, or into a writer already in the
\* Element state, is written as any other element.
C5_GroupLengthDroppedInFileMeta ==
    \A i \in 1..Len(wInput) :
        wInput[i].tag = FILE_META_INFORMATION_GROUP_LENGTH =>
            /\ InFileMetaPhase(i) => ~Written(i)
            /\ (~InFileMetaPhase(i) /\ wResult.ok) => Written(i)

C5_Witness ==
    /\ wResult.ok
    /\ Len(wInput) = 2
    /\ wInput[1].tag = FILE_META_INFORMATION_GROUP_LENGTH
    /\ InFileMetaPhase(1)
    /\ Written(2)
    /\ \E k \in LogOfCall(wCalls) : wLog[k].kind = "group_length"

\* C6: every file-meta element is framed in the file-meta block as
\* ExplicitVRLittleEndian, whatever transfer syntax the element carries.
C6_FileMetaFramedExplicitLE ==
    \A k \in 1..Len(wLog) :
        wLog[k].kind = "file_meta" =>
            LET e == wLog[k].elem
            IN  Seg(wLog[k]) =
                    Le16(e.tag.hi) \o Le16(e.tag.lo) \o e.vr.ident
                    \o (IF e.vr.has_explicit_2byte_pad
                        THEN <<0, 0>> \o Le16(e.vl.len.lo) \o Le16(e.vl.len.hi)
                        ELSE Le16(e.vl.len.lo))
                    \o e.data

\* C7: write_elements in the Preamble state emits the DICM prefix if and only
\* if a file preamble is configured, right after the 128 preamble bytes; with
\* none configured the first bytes written are those of the file-meta group.
C7_PrefixIffPreamble ==
    (wCalls > 0 /\ wLog # <<>>) =>
        /\ (\E k \in 1..Len(wLog) : wLog[k].kind = "prefix") <=> wPreamble
        /\ wPreamble =>
              /\ Len(wOut) >= FILE_PREAMBLE_LENGTH + 4
              /\ SubSeq(wOut, FILE_PREAMBLE_LENGTH + 1, FILE_PREAMBLE_LENGTH + 4)
                    = DICOM_PREFIX
        /\ ~wPreamble => wLog[1].kind \in {"group_length", "element"}

\* C8: write_elements keeps the iteration order: the log tiles the sink, the
\* elements of a call lie in it in input order and once each, the file-meta
\* block of a call precedes its other elements, and a successful call leaves
\* out no element but the group lengths it ignores.
C8_OrderPreserved ==
    /\ \A k \in 1..Len(wLog) :
          wLog[k].from = (IF k = 1 THEN 0 ELSE wLog[k - 1].from + wLog[k - 1].len)
    /\ (wLog # <<>> => wLog[Len(wLog)].from + wLog[Len(wLog)].len = Len(wOut))
    /\ (wLog = <<>> => wOut = <<>>)
    /\ \A k, l \in 1..Len(wLog) :
          (k < l /\ wLog[k].call = wLog[l].call /\ wLog[k].idx > 0 /\ wLog[l].idx > 0)
              => wLog[k].idx < wLog[l].idx
    /\ \A k, l \in 1..Len(wLog) :
          (wLog[k].call = wLog[l].call
              /\ wLog[k].kind \in {"group_length", "file_meta"}
              /\ wLog[l].kind = "element") => k < l
    /\ \A k \in LogOfCall(wCalls) :
          wLog[k].idx > 0 => wLog[k].elem = wInput[wLog[k].idx]
    /\ (wCalls > 0 /\ wResult.ok) =>
          \A i \in 1..Len(wInput) : Written(i) <=> ~Dropped(i)

C8_Witness ==
    /\ wResult.ok
    /\ Len(wInput) = 2
    /\ \E k, l \in LogOfCall(wCalls) :
          /\ wLog[k].kind = "file_meta" /\ wLog[k].idx = 1
          /\ wLog[l].kind = "element" /\ wLog[l].idx = 2
          /\ wLog[k].from + wLog[k].len = wLog[l].from

\* C9: an element is emitted as its 4-byte tag, its VR (2 bytes, 2 more zero
\* bytes with the 2-byte pad; nothing under implicit VR), its value length
\* (4 bytes exactly when the transfer syntax is implicit-VR or the VR has the
\* pad, else 2 bytes, in the transfer syntax's endianness, UndefinedLength as
\* 0xFFFF_FFFF), then its data.
C9_ElementFraming ==
    \A k \in 1..Len(wLog) :
        (wLog[k].kind \in {"element", "file_meta", "group_length"} /\ wLog[k].ok) =>
            LET e == wLog[k].elem
                s == Seg(wLog[k])
                T16(x) == IF e.ts.big_endian THEN Be16(x) ELSE Le16(x)
                vrlen == IF ~e.ts.explicit_vr THEN 0
                         ELSE IF e.vr.has_explicit_2byte_pad THEN 4 ELSE 2
                vllen == IF ~e.ts.explicit_vr \/ e.vr.has_explicit_2byte_pad
                         THEN 4 ELSE 2
                vl == SubSeq(s, 4 + vrlen + 1, 4 + vrlen + vllen)
            IN  /\ Len(s) = 4 + vrlen + vllen + Len(e.data)
                /\ SubSeq(s, 1, 4) = T16(e.tag.hi) \o T16(e.tag.lo)
                /\ vrlen >= 2 => SubSeq(s, 5, 6) = e.vr.ident
                /\ vrlen = 4 => SubSeq(s, 7, 8) = <<0, 0>>
                /\ e.vl.kind = "UndefinedLength" => vl = <<255, 255, 255, 255>>
                /\ (e.vl.kind = "Explicit" /\ vllen = 4) =>
                      vl = (IF e.ts.big_endian
                            THEN Be16(e.vl.len.hi) \o Be16(e.vl.len.lo)
                            ELSE Le16(e.vl.len.lo) \o Le16(e.vl.len.hi))
                /\ (e.vl.kind = "Explicit" /\ vllen = 2) => vl = T16(e.vl.len.lo)
                /\ SubSeq(s, 4 + vrlen + vllen + 1, Len(s)) = e.data

C9_Witness ==
    /\ \E k \in 1..Len(wLog) :
          /\ wLog[k].kind = "element" /\ wLog[k].ok
          /\ ~wLog[k].elem.ts.explicit_vr
          /\ wLog[k].len = 10
    /\ \E k \in 1..Len(wLog) :
          /\ wLog[k].kind = "element" /\ wLog[k].ok
          /\ wLog[k].elem.ts.explicit_vr
          /\ wLog[k].elem.vr.has_explicit_2byte_pad
          /\ wLog[k].elem.vl.kind = "UndefinedLength"

\* C10: a call fails with InvalidValueLength exactly when an element it comes
\* to write has UndefinedLength under short-form framing; then no value
\* length and no data of that element are in the sink, and no later element
\* of the iterator is written.
C10_InvalidValueLength ==
    wCalls > 0 =>
        LET bad == {i \in 1..Len(wInput) : ~Dropped(i) /\ ShortUndefined(wInput[i])}
        IN  /\ ~wResult.ok <=> bad # {}
            /\ \A k \in 1..Len(wLog) :
                  ~wLog[k].ok =>
                      /\ ShortUndefined(wLog[k].elem)
                      /\ \A l \in (k + 1)..Len(wLog) : wLog[l].call # wLog[k].call
                      /\ Seg(wLog[k]) =
                            (IF wLog[k].elem.ts.big_endian
                             THEN Be16(wLog[k].elem.tag.hi) \o Be16(wLog[k].elem.tag.lo)
                             ELSE Le16(wLog[k].elem.tag.hi) \o Le16(wLog[k].elem.tag.lo))
                            \o wLog[k].elem.vr.ident
            /\ \A i \in bad :
                  \A k \in LogOfCall(wCalls) :
                      /\ wLog[k].idx <= i
                      /\ wLog[k].idx = i => ~wLog[k].ok

C10_Witness ==
    /\ ~wResult.ok
    /\ Len(wInput) = 2
    /\ ShortUndefined(wInput[1])
    /\ ~InFileMetaPhase(2)
    /\ wLog # <<>>
    /\ ~wLog[Len(wLog)].ok
    /\ wLog[Len(wLog)].len = 6

(***************************************************************************)
(* C11: even value length in the writer (SpecWrite)                        *)
(***************************************************************************)
\* Bytes of the framing (tag, VR, value length) the writer puts before the
\* data of element e.
HeaderLen(e) ==
    4 + (IF ~e.ts.explicit_vr THEN 0 ELSE IF e.vr.has_explicit_2byte_pad THEN 4 ELSE 2)
      + (IF ~e.ts.explicit_vr \/ e.vr.has_explicit_2byte_pad THEN 4 ELSE 2)

\* C11: for every element the writer has emitted, the number of data bytes
\* written for it is a multiple of 2.
C11_EvenValueLength ==
    \A k \in 1..Len(wLog) :
        (wLog[k].kind \in {"element", "file_meta", "group_length"} /\ wLog[k].ok) =>
            (wLog[k].len - HeaderLen(wLog[k].elem)) % 2 = 0

(***************************************************************************)
(* C12: value encoding (SpecEncode)                                        *)
(***************************************************************************)
RECURSIVE SumOf(_)
SumOf(ns) == IF ns = <<>> THEN 0 ELSE Head(ns) + SumOf(Tail(ns))

\* Length of n texts of the given lengths joined by one separator each.
JoinedLen(lens) == IF lens = <<>> THEN 0 ELSE SumOf(lens) + Len(lens) - 1

DecLen(n) ==
    (IF n < 0 THEN 1 ELSE 0)
    + (LET a == IF n < 0 THEN 0 - n ELSE n
       IN  IF a < 10 THEN 1 ELSE IF a < 100 THEN 2 ELSE 3)

WidthOf(kind) ==
    CASE kind \in {"Shorts", "UnsignedShorts", "Words"} -> 2
      [] kind \in {"Integers", "UnsignedIntegers", "DoubleWords", "Floats", "Attribute"} -> 4
      [] kind \in {"Longs", "UnsignedLongs", "QuadWords", "Doubles"} -> 8
      [] OTHER -> 1

\* Length of the encoding of value for elem before padding, counted from the
\* value itself.
NaturalLen(elem, value) ==
    LET v == value.vals
        k == value.kind
    IN  CASE k = "Uid" -> Len(v)
          [] k = "Strings" -> JoinedLen([i \in 1..Len(v) |-> Len(v[i])])
          [] k \in {"Shorts", "UnsignedShorts", "Integers", "UnsignedIntegers",
                    "Longs", "UnsignedLongs"} /\ is_character_string(elem.vr) ->
                JoinedLen([i \in 1..Len(v) |-> DecLen(v[i])])
          [] k \in {"Floats", "Doubles"} ->
                LET fin == SelectSeq(v, LAMBDA f : f.finite)
                IN  IF is_character_string(elem.vr)
                    THEN JoinedLen([i \in 1..Len(fin) |->
                            IF fin[i].whole THEN 3 ELSE Len(fin[i].display)])
                    ELSE WidthOf(k) * Len(fin)
          [] OTHER -> WidthOf(k) * Len(v)

\* C12: a value encoding that succeeds has even length; it is the encoding of
\* the variant unchanged when that is even and that encoding followed by one
\* padding byte of the element's VR when it is odd.
C12_EncodedEvenLength ==
    (eResult.done /\ eResult.ok) =>
        LET natural == encode_variant(eElem, eValue).bytes
            n == NaturalLen(eElem, eValue)
        IN  /\ Len(eResult.bytes) % 2 = 0
            /\ Len(eResult.bytes) = n + (n % 2)
            /\ SubSeq(eResult.bytes, 1, n) = natural
            /\ n % 2 = 1 => eResult.bytes[n + 1] = eElem.vr.padding

C12_Witness ==
    /\ eResult.done /\ eResult.ok
    /\ eElem.vr = CS
    /\ eValue = RawValue("Strings", <<(<<49>>), (<<49>>)>>)
    /\ eResult.bytes = <<49, 92, 49, 32>>

(***************************************************************************)
(* C13..C15: byte-level readers (SpecRead)                                 *)
(***************************************************************************)
\* The source holds at least n bytes and gives the first n without an error.
Gives(n) == Len(rSrc.data) >= n /\ (rSrc.fault = -1 \/ rSrc.fault >= n)

\* The source ends after exactly k bytes, without an error.
EndsAfter(k) == Len(rSrc.data) = k /\ (rSrc.fault = -1 \/ rSrc.fault > k)

Byte(i) == rSrc.data[i]

\* C13: read_tag_from_dataset returns ExpectedEOF exactly when the source
\* ends before the first byte of the tag; a source that ends after 1, 2 or 3
\* bytes gives IOError(UnexpectedEof); with 4 bytes the tag is
\* (group << 16) | element, both halves in the requested byte order.
C13_ReadTagEndOfStream ==
    rCall.fn = "read_tag" =>
        /\ rResult.kind = "ExpectedEOF" <=> EndsAfter(0)
        /\ \A k \in 1..3 :
              EndsAfter(k) => rResult.kind = "IOError" /\ rResult.err = "UnexpectedEof"
        /\ Gives(4) =>
              /\ rResult.kind = "Ok"
              /\ rResult.pos = 4
              /\ rResult.tag =
                    (IF rCall.ts.big_endian
                     THEN U32(256 * Byte(1) + Byte(2), 256 * Byte(3) + Byte(4))
                     ELSE U32(Byte(1) + 256 * Byte(2), Byte(3) + 256 * Byte(4)))

C13_Witness ==
    /\ rCall.fn = "read_tag"
    /\ EndsAfter(2)
    /\ rSrc.chunk = 1
    /\ rResult.kind = "IOError" /\ rResult.err = "UnexpectedEof"
    /\ rResult.pos = 2

\* C14: read_vr_from_dataset draws 2 bytes for a VR without the 2-byte pad,
\* 4 bytes for a VR with it, and 2 bytes for an unknown code, which it
\* returns as UnknownExplicitVR((first byte << 8) + second byte).
C14_ReadVrConsumes ==
    (rCall.fn = "read_vr" /\ Gives(2)) =>
        LET code == Byte(1) * 256 + Byte(2)
        IN  /\ ~from_code(code).some =>
                  /\ rResult.kind = "UnknownExplicitVR"
                  /\ rResult.code = code
                  /\ rResult.pos = 2
            /\ (from_code(code).some /\ ~from_code(code).vr.has_explicit_2byte_pad) =>
                  /\ rResult.kind = "Ok"
                  /\ rResult.vr.ident = <<Byte(1), Byte(2)>>
                  /\ rResult.pos = 2
            /\ (from_code(code).some /\ from_code(code).vr.has_explicit_2byte_pad
                    /\ Gives(4)) =>
                  /\ rResult.kind = "Ok"
                  /\ rResult.vr.ident = <<Byte(1), Byte(2)>>
                  /\ rResult.pos = 4

C14_Witness ==
    /\ rCall.fn = "read_vr"
    /\ Gives(4)
    /\ SubSeq(rSrc.data, 1, 2) = <<85, 78>>
    /\ rResult.kind = "Ok"
    /\ rResult.vr = UN
    /\ rResult.pos = 4

\* C15: read_value_length_from_dataset draws 2 bytes under explicit VR for a
\* VR without the 2-byte pad and 4 bytes otherwise, decodes them in the
\* transfer syntax's byte order, and returns UndefinedLength exactly for
\* 0xFFFF_FFFF and Explicit(n) for every other n; a 2-byte 0xFFFF is
\* Explicit(65535).
C15_ReadValueLength ==
    rCall.fn = "read_value_length" =>
        LET short == rCall.ts.explicit_vr /\ ~rCall.vr.has_explicit_2byte_pad
            n == IF short THEN 2 ELSE 4
            be == rCall.ts.big_endian
            hi == IF short THEN 0
                  ELSE IF be THEN 256 * Byte(1) + Byte(2) ELSE Byte(3) + 256 * Byte(4)
            lo == IF short
                  THEN (IF be THEN 256 * Byte(1) + Byte(2) ELSE Byte(1) + 256 * Byte(2))
                  ELSE IF be THEN 256 * Byte(3) + Byte(4) ELSE Byte(1) + 256 * Byte(2)
        IN  /\ rResult.kind = "Ok" => rResult.pos = n
            /\ Gives(n) =>
                  /\ rResult.kind = "Ok"
                  /\ rResult.vl.kind = "UndefinedLength" <=> (hi = 65535 /\ lo = 65535)
                  /\ rResult.vl.kind = "Explicit" => rResult.vl.len = U32(hi, lo)
                  /\ rResult.vl.kind \in {"UndefinedLength", "Explicit"}

C15_Witness ==
    /\ rCall.fn = "read_value_length"
    /\ rCall.ts = ExplicitVRBigEndian /\ rCall.vr = UL
    /\ Gives(2)
    /\ SubSeq(rSrc.data, 1, 2) = <<255, 255>>
    /\ rResult.kind = "Ok"
    /\ rResult.vl = [kind |-> "Explicit", len |-> U32(0, 65535)]
    /\ rResult.pos = 2

(***************************************************************************)
(* C16..C20: DicomStream (SpecStream)                                      *)
(***************************************************************************)
\* C16: after any sequence of DicomStream read operations, the last of which
\* returned Ok, bytes_read is the number of bytes drawn from the stream.
C16_BytesReadCountsConsumed == dLast.ok => dSt.bytes_read = dSt.pos

\* The stream is a file whose group length is the length of its file-meta
\* elements, and body is that file-meta group.
WellFormedWith(body) ==
    dStream.data = Preamble \o DICOM_PREFIX \o GroupLengthElement(Len(Flatten(body)))
                   \o Flatten(body) \o SpecificCharacterSet

\* C17: read_file_meta on a new stream over a well-formed file reads elements
\* as file-meta until exactly group-length bytes after the group-length
\* element are drawn: every element of the file-meta group is read, and none
\* beyond it.
C17_FileMetaSpansGroupLength ==
    \A body \in FileMetaBodies :
        (dLast.op = "read_file_meta" /\ dLast.start = new /\ WellFormedWith(body)) =>
            /\ dLast.ok
            /\ dLast.fme_bytes = Len(Flatten(body))
            /\ dSt.pos - dLast.fme_start = dLast.fme_bytes
            /\ Len(dLast.reads) = Len(body)

\* The transfer syntax file_meta names: the descriptor of its
\* TransferSyntaxUID when that is a known UID.
NamedTransferSyntax(file_meta) ==
    {TS_BY_ID(ts_uid_bytes(e.bytes)).ts :
        e \in {x \in file_meta : x.tag = TransferSyntaxUID
                                 /\ TS_BY_ID(ts_uid_bytes(x.bytes)).some}}

\* C18: after read_file_meta has succeeded the active transfer syntax is the
\* one file_meta names, and ExplicitVRLittleEndian when file_meta holds no
\* TransferSyntaxUID or an unknown one.
C18_ActiveTransferSyntax ==
    (dLast.op = "read_file_meta" /\ dLast.ok /\ dLast.start = new) =>
        IF NamedTransferSyntax(dSt.file_meta) # {}
        THEN dSt.ts \in NamedTransferSyntax(dSt.file_meta)
        ELSE dSt.ts = ExplicitVRLittleEndian

\* C19: read_file_meta reads every file-meta element of its loop with the
\* transfer syntax the stream had when it was called, ExplicitVRLittleEndian
\* on a stream as DicomStream::new leaves it, the elements after
\* TransferSyntaxUID too; ts changes only when read_file_meta returns Ok and
\* is unchanged when it returns an error or another operation ran.
C19_FileMetaReadExplicitLE ==
    /\ dLast.op = "new" => dSt.ts = ExplicitVRLittleEndian
    /\ (dLast.op # "read_file_meta" \/ ~dLast.ok) => dSt.ts = dLast.start.ts
    /\ dLast.op = "read_file_meta" =>
          \A i \in 1..Len(dLast.reads) :
              LET r == dLast.reads[i]
              IN  /\ r.ts = dLast.start.ts
                  /\ dLast.start.ts = ExplicitVRLittleEndian =>
                        /\ r.element.tag =
                              U32(dStream.data[r.from + 1] + 256 * dStream.data[r.from + 2],
                                  dStream.data[r.from + 3] + 256 * dStream.data[r.from + 4])
                        /\ r.element.vr.ident =
                              <<dStream.data[r.from + 5], dStream.data[r.from + 6]>>
                        /\ r.element.bytes =
                              SubSeq(dStream.data, r.to - r.element.vl + 1, r.to)

C19_Witness ==
    /\ dLast.op = "read_file_meta" /\ dLast.ok
    /\ dLast.start = new
    /\ Len(dLast.reads) = 2
    /\ dLast.reads[1].element.tag = TransferSyntaxUID
    /\ dLast.reads[2].element.tag = U32(2, 2)
    /\ dLast.reads[2].ts = ExplicitVRLittleEndian
    /\ dSt.ts = ExplicitVRBigEndian

\* C20: with 4 bytes to read, the prefix fails exactly when they differ from
\* DICM in some position; read_file_meta then has read no element and leaves
\* file_meta (empty on a new stream) and ts as they were.
C20_PrefixMismatch ==
    /\ (dLast.op = "read_dicom_prefix" /\ Len(dStream.data) - dLast.start.pos >= 4) =>
          (~dLast.ok <=>
              SubSeq(dStream.data, dLast.start.pos + 1, dLast.start.pos + 4) # <<68, 73, 67, 77>>)
    /\ (dLast.op = "read_file_meta" /\ dLast.step # "preamble"
            /\ Len(dStream.data) - dLast.start.pos >= 132) =>
          (dLast.step = "prefix" <=>
              SubSeq(dStream.data, dLast.start.pos + 129, dLast.start.pos + 132)
                  # <<68, 73, 67, 77>>)
    /\ (dLast.op = "read_file_meta" /\ dLast.step = "prefix") =>
          /\ ~dLast.ok
          /\ dLast.reads = <<>>
          /\ dSt.pos <= dLast.start.pos + 132
          /\ dSt.file_meta = dLast.start.file_meta
          /\ dLast.start = new => dSt.file_meta = {}
          /\ dSt.ts = dLast.start.ts

C20_Witness ==
    /\ dLast.op = "read_file_meta" /\ ~dLast.ok
    /\ dLast.start = new
    /\ dLast.step = "prefix"
    /\ Len(dStream.data) >= 132
    /\ SubSeq(dStream.data, 129, 132) = <<68, 73, 67, 88>>
    /\ dSt.pos = 132
    /\ dSt.file_meta = {}
    /\ dSt.ts = ExplicitVRLittleEndian

(***************************************************************************)
(* C21: item and delimiter headers in the writer (SpecWrite)               *)
(***************************************************************************)
ItemTags == {ITEM, U32(65534, 57357), U32(65534, 57565)}

\* C21: an element whose tag is item, item delimiter or sequence delimiter
\* is emitted without VR bytes under every transfer syntax: its bytes in the
\* sink are the 4-byte tag, a 4-byte value length and its data.
C21_ItemHeaderWithoutVR ==
    \A k \in 1..Len(wLog) :
        (wLog[k].kind = "element" /\ wLog[k].ok /\ wLog[k].elem.tag \in ItemTags) =>
            /\ wLog[k].len = 8 + Len(wLog[k].elem.data)
            /\ SubSeq(Seg(wLog[k]), 5, 8) =
                   (IF wLog[k].elem.vl.kind = "UndefinedLength"
                    THEN <<255, 255, 255, 255>>
                    ELSE IF wLog[k].elem.ts.big_endian
                    THEN Be16(wLog[k].elem.vl.len.hi) \o Be16(wLog[k].elem.vl.len.lo)
                    ELSE Le16(wLog[k].elem.vl.len.lo) \o Le16(wLog[k].elem.vl.len.hi))

(***************************************************************************)
(* C22: encoding of attribute tags (SpecEncode)                            *)
(***************************************************************************)
\* C22: RawValue::Attribute of n tags encodes to exactly 4n bytes in list
\* order, each tag as its group number then its element number, each half
\* in the endianness of the element's transfer syntax; [0x00100010] gives
\* 10 00 10 00 under little endian and 00 10 00 10 under big endian.
C22_AttributeEncoding ==
    (eResult.done /\ eValue.kind = "Attribute") =>
        /\ eResult.ok
        /\ Len(eResult.bytes) = 4 * Len(eValue.vals)
        /\ \A i \in 1..Len(eValue.vals) :
              SubSeq(eResult.bytes, 4 * i - 3, 4 * i) =
                  (IF eElem.ts.big_endian
                   THEN <<eValue.vals[i].hi \div 256, eValue.vals[i].hi % 256,
                          eValue.vals[i].lo \div 256, eValue.vals[i].lo % 256>>
                   ELSE <<eValue.vals[i].hi % 256, eValue.vals[i].hi \div 256,
                          eValue.vals[i].lo % 256, eValue.vals[i].lo \div 256>>)
        /\ eValue.vals = <<U32(16, 16)>> =>
              eResult.bytes = (IF eElem.ts.big_endian THEN <<0, 16, 0, 16>>
                               ELSE <<16, 0, 16, 0>>)

C22_Witness ==
    /\ eResult.done
    /\ eValue = RawValue("Attribute", <<U32(16, 16), U32(32736, 16)>>)
    /\ ~eElem.ts.big_endian
    /\ eResult.bytes = <<16, 0, 16, 0, 224, 127, 16, 0>>

(***************************************************************************)
(* C23: bytes_read at element boundaries (SpecStream)                      *)
(***************************************************************************)
\* C23: the values of bytes_read at successive element boundaries are
\* strictly increasing: a successful read_dicom_element leaves bytes_read
\* greater than it found it, with a peeked tag and with a value of zero
\* length too, and no operation between two elements lowers it.
C23_BytesReadIncreases ==
    /\ dSt.bytes_read >= dLast.start.bytes_read
    /\ (dLast.op = "read_dicom_element" /\ dLast.ok) =>
           dSt.bytes_read > dLast.start.bytes_read

C23_Witness ==
    /\ dLast.op = "read_dicom_element" /\ dLast.ok
    /\ dLast.start.tag_peek.some
    /\ dLast.v.vl = 0
    /\ dLast.v.bytes = <<>>
    /\ dSt.pos = dLast.start.pos + 4

(***************************************************************************)
(* C24: empty and short input (SpecStream)                                 *)
(***************************************************************************)
\* C24: read_file_meta on a stream with no byte before the preamble ends
\* without error and reads no element; it fails while reading the preamble
\* only when between 1 and 127 bytes are available.
C24_EmptyInputTerminates ==
    (dLast.op = "read_file_meta" /\ dLast.start.pos = 0) =>
        /\ Len(dStream.data) = 0 => (dLast.ok /\ dLast.reads = <<>>)
        /\ (~dLast.ok /\ dLast.step = "preamble") =>
               Len(dStream.data) \in 1..(FILE_PREAMBLE_LENGTH - 1)

(***************************************************************************)
(* C25: Writer::bytes_written (SpecWrite)                                  *)
(***************************************************************************)
\* C25: after any sequence of write_elements calls that all succeeded,
\* Writer::bytes_written() is the number of bytes written to the dataset so
\* far, the sum of the byte counts the calls returned.
C25_BytesWrittenCountsSink ==
    (\A k \in 1..Len(wLog) : wLog[k].ok) => wBytesWritten = Len(wOut)

(***************************************************************************)
(* C28: the file header is written once (SpecWrite)                        *)
(***************************************************************************)
LogOfKind(kind) == {k \in 1..Len(wLog) : wLog[k].kind = kind}

\* C28: across the write_elements calls on one Writer the preamble and the
\* DICM prefix are written only by the first call, each at most once, and
\* at most one FileMetaInformationGroupLength element reaches the sink.
C28_HeaderWrittenOnce ==
    /\ \A k \in LogOfKind("preamble") \cup LogOfKind("prefix") : wLog[k].call = 1
    /\ Cardinality(LogOfKind("preamble")) <= 1
    /\ Cardinality(LogOfKind("prefix")) <= 1
    /\ Cardinality(LogOfKind("group_length")) <= 1

(***************************************************************************)
(* C26: the peeked tag (SpecStream)                                        *)
(***************************************************************************)
\* The 4 bytes at offset pos of the stream as a tag, in either byte order.
TagAt(pos, big) ==
    IF big
    THEN U32(256 * dStream.data[pos + 1] + dStream.data[pos + 2],
             256 * dStream.data[pos + 3] + dStream.data[pos + 4])
    ELSE U32(dStream.data[pos + 1] + 256 * dStream.data[pos + 2],
             dStream.data[pos + 3] + 256 * dStream.data[pos + 4])

\* C26: once read_tag has succeeded, further read_tag calls return the same
\* tag, consume nothing and leave bytes_read unchanged, and the peek stays
\* until read_dicom_element is called; that call returns an element with
\* the peeked tag, reading on from the VR, and clears the peek, so that the
\* next read_tag takes 4 fresh bytes from the stream.
C26_PeekedTag ==
    /\ (dLast.op = "read_tag" /\ dLast.start.tag_peek.some) =>
           /\ dLast.ok
           /\ dLast.v = dLast.start.tag_peek.tag
           /\ dSt = dLast.start
    /\ (dLast.op = "read_tag" /\ dLast.ok /\ ~dLast.start.tag_peek.some) =>
           /\ dSt.pos = dLast.start.pos + 4
           /\ dLast.v \in {TagAt(dLast.start.pos, TRUE), TagAt(dLast.start.pos, FALSE)}
           /\ dSt.tag_peek = [some |-> TRUE, tag |-> dLast.v]
    /\ (dLast.start.tag_peek.some
          /\ dLast.op \notin {"read_dicom_element", "read_file_meta"}) =>
           dSt.tag_peek = dLast.start.tag_peek
    /\ (dLast.op = "read_dicom_element" /\ dLast.ok) => ~dSt.tag_peek.some
    /\ (dLast.op = "read_dicom_element" /\ dLast.ok /\ dLast.start.tag_peek.some) =>
           /\ dLast.v.tag = dLast.start.tag_peek.tag
           /\ dLast.start.ts.explicit_vr =>
                 /\ SubSeq(dStream.data, dLast.start.pos + 1, dLast.start.pos + 2)
                        = dLast.v.vr.ident
                 /\ dSt.pos = dLast.start.pos
                        + (IF dLast.v.vr.has_explicit_2byte_pad THEN 8 ELSE 4)
                        + Len(dLast.v.bytes)

C26_Witness ==
    /\ dOps >= 3
    /\ dLast.op = "read_dicom_element" /\ dLast.ok
    /\ dLast.start.tag_peek.some
    /\ dLast.start.pos = 4
    /\ dLast.v.tag = TagAt(0, FALSE)
    /\ Len(dLast.v.bytes) = 2
    /\ dSt.pos = 10

(***************************************************************************)
(* C27: header round trip (SpecRead)                                       *)
(***************************************************************************)
\* C27: the header the writer framed for an element, read back under the
\* same transfer syntax with read_tag_from_dataset, read_vr_from_dataset
\* (explicit VR only) and read_value_length_from_dataset, is consumed to its
\* last byte and gives the element's tag, VR and ValueLength.
C27_HeaderRoundTrip ==
    rCall.fn = "read_header" =>
        /\ rResult.kind = "Ok"
        /\ rResult.pos = Len(rSrc.data)
        /\ rResult.tag = rCall.elem.tag
        /\ rCall.elem.ts.explicit_vr => rResult.vr = rCall.elem.vr
        /\ rResult.vl = rCall.elem.vl

(***************************************************************************)
(* C29: is_non_standard_seq (SpecRead)                                     *)
(***************************************************************************)
\* C29: is_non_standard_seq(tag, vr, vl) is true exactly when vl is
\* UndefinedLength, vr is one of UN, OB, OF, OW and tag is not the item tag
\* 0xFFFE_E000.
C29_NonStandardSeq ==
    rCall.fn = "is_non_standard_seq" =>
        (rResult.seq <=>
            /\ rCall.elem.vl.kind = "UndefinedLength"
            /\ rCall.elem.vr.ident \in {<<85, 78>>, <<79, 66>>, <<79, 70>>, <<79, 87>>}
            /\ ~(rCall.elem.tag.hi = 65534 /\ rCall.elem.tag.lo = 57344))

C29_Witness ==
    /\ rCall.fn = "is_non_standard_seq"
    /\ rCall.elem.tag = ITEM
    /\ rCall.elem.vr = OF
    /\ rCall.elem.vl = UndefinedLength
    /\ ~rResult.seq

(***************************************************************************)
(* C30: interrupted reads (SpecRead)                                       *)
(***************************************************************************)
\* The source of the call had it never returned Interrupted.
Uninterrupted == [rSrc EXCEPT !.interrupt = -1, !.again = 0]

\* C30: an Interrupted error of the source never surfaces from
\* read_exact_expect_eof, the first read of read_tag_from_dataset: the call
\* ends with the result, the bytes and the position of a run on the same
\* source without interruptions.
C30_InterruptedRetried ==
    rCall.fn = "read_tag" =>
        /\ rResult.err # "Interrupted"
        /\ rResult.kind \in {"Ok", "ExpectedEOF", "IOError"}
        /\ rResult = read_tag_from_dataset(Uninterrupted, rCall.ts.big_endian)
        /\ (Gives(2) /\ rSrc.interrupt \in {0, 1}) =>
               /\ rResult.kind # "ExpectedEOF"
               /\ rResult.pos >= 2
               /\ Gives(4) => rResult.tag.hi =
                      (IF rCall.ts.big_endian THEN 256 * Byte(1) + Byte(2)
                       ELSE Byte(1) + 256 * Byte(2))

C30_Witness ==
    /\ rCall.fn = "read_tag"
    /\ rSrc.interrupt = 0 /\ rSrc.again = 1
    /\ Gives(4)
    /\ SubSeq(rSrc.data, 1, 4) = <<85, 0, 78, 0>>
    /\ rResult.kind = "Ok"
    /\ rResult.tag = U32(85, 78)
    /\ rResult.pos = 4

====
